---- MODULE Spec2Model ----
(***************************************************************************)
(* A model of the WordCraft suggestion engine (backend/services/nlp):      *)
(* blank preprocessing, intent detection, candidate aggregation, ranking,  *)
(* the learned-reranker blend, sentence rewriting and the orchestrator.    *)
(*                                                                         *)
(* Strings are modelled as sequences of atoms.  A text is a record         *)
(* [w |-> sequence of whitespace separated atoms, dot |-> BOOLEAN], where  *)
(* dot says that a terminal "." is glued to the end of the text.  The      *)
(* empty text is [w |-> <<>>, dot |-> FALSE].  Scores are integers in      *)
(* units of 1/10000, weights and features in units of 1/100.               *)
(***************************************************************************)
EXTENDS Integers, Sequences, FiniteSets

VARIABLES
    _CONTEXTS,              \* engine._CONTEXTS: None or the loaded contexts
    _INITIALIZED,           \* engine._INITIALIZED
    _INITIALIZATION_ERROR,  \* engine._INITIALIZATION_ERROR: None or an error
    _context_centroids,     \* embeddings._context_centroids (its key set)
    _LOADED,                \* emotion_service._LOADED
    loads,                  \* how often each shared resource has been loaded
    _related_cache,         \* the lru_cache of conceptnet_service.get_related_words
    env,                    \* the process environment: files and capabilities
    pc,                     \* "idle"; "done" when a response is out; "raised"
                            \* when the call ended in an exception
    _CACHED_MTIME,          \* ml_reranker._CACHED_MTIME
    _CACHED_ARTIFACT,       \* ml_reranker._CACHED_ARTIFACT
    artifact_file,          \* the reranker artifact file
    disable_switch,         \* os.getenv("WORDCRAFT_DISABLE_RERANKER")
    req,                    \* the request being answered
    resp,                   \* its response
    threads                 \* the calls in flight when calls overlap: for each
                            \* thread its position and its local variables

vars == << _CONTEXTS, _INITIALIZED, _INITIALIZATION_ERROR, _context_centroids,
           _LOADED, loads, _related_cache, env, _CACHED_MTIME, _CACHED_ARTIFACT, artifact_file,
           disable_switch, pc, req, resp, threads >>

None == "None"

\* ------------------------------------------------------------------ bounds

\* Longest input text, in atoms.
MaxLen == 4

\* Longest candidate list handed to the reranker.
MaxRows == 2

\* The count of loads of one version of the artifact file stops here.
LoadCountCap == 2

\* ------------------------------------------------------- sequence helpers

Range(s) == { s[i] : i \in 1..Len(s) }

Min2(a, b) == IF a <= b THEN a ELSE b

Max2(a, b) == IF a >= b THEN a ELSE b

Prefix(s, n) == SubSeq(s, 1, Min2(n, Len(s)))

SeqsUpTo(S, n) == UNION { [1..k -> S] : k \in 0..n }

RECURSIVE Dedupe(_)
\* list(dict.fromkeys(s)): first occurrences, order kept
Dedupe(s) ==
    IF s = <<>> THEN <<>>
    ELSE LET front == Dedupe(SubSeq(s, 1, Len(s) - 1))
             last == s[Len(s)]
         IN  IF last \in Range(front) THEN front ELSE Append(front, last)

RECURSIVE FlatMap(_, _)
\* the concatenation of f[s[i]], f a function from atoms to sequences
FlatMap(f, s) ==
    IF s = <<>> THEN <<>> ELSE f[Head(s)] \o FlatMap(f, Tail(s))

\* ---------------------------------------------------------------- strings

BLANK_TOKEN == "[BLANK]"

BLANK_PLACEHOLDER == "BLANKTOKEN"

\* Spellings BLANK_RE matches: runs of underscores, ellipses, bracketed blank.
MarkerSpellings == {"____", "...", "(blank)", "[BLANK]"}

EmptyText == [w |-> <<>>, dot |-> FALSE]

IsEmptyText(t) == t.w = <<>> /\ ~t.dot

\* str.lower() on the atoms the model uses
Lower(a) ==
    CASE a = "He" -> "he"
      [] a = "The" -> "the"
      [] a = "Very" -> "very"
      [] a = "Night" -> "night"
      [] a = "BLANKTOKEN" -> "blanktoken"
      [] a = "[BLANK]" -> "[blank]"
      [] OTHER -> a

\* str[0].isupper()
IsUpperFirst(a) == a \in {"He", "The", "Very", "BLANKTOKEN"}

\* ---------------------------------------------------- blank_detector.py

\* BLANK_RE.sub(BLANK_TOKEN, ...) followed by the re-spacing and split(" "):
\* every marker spelling becomes a BLANK_TOKEN token of its own; a terminal
\* "." stays glued to a word, is split off a marker (and off nothing), and is
\* part of the run of dots when the text ends in an ellipsis.
MarkTokens(text) ==
    LET marked == [i \in 1..Len(text.w) |->
                     IF text.w[i] \in MarkerSpellings THEN BLANK_TOKEN ELSE text.w[i]]
        lastIsMarker == marked # <<>> /\ marked[Len(marked)] = BLANK_TOKEN
        absorbed == lastIsMarker /\ text.w[Len(text.w)] = "..."
        splitDot == text.dot /\ ~absorbed /\ (marked = <<>> \/ lastIsMarker)
    IN  [toks |-> IF splitDot THEN Append(marked, ".") ELSE marked,
         glued |-> text.dot /\ marked # <<>> /\ ~lastIsMarker]

RECURSIVE KeepFirstBlank(_, _)
\* tokens[index] = "" for every blank but the first, then the empty ones dropped
KeepFirstBlank(toks, seen) ==
    IF toks = <<>> THEN <<>>
    ELSE IF Head(toks) = BLANK_TOKEN
         THEN (IF seen THEN <<>> ELSE <<BLANK_TOKEN>>) \o KeepFirstBlank(Tail(toks), TRUE)
         ELSE <<Head(toks)>> \o KeepFirstBlank(Tail(toks), seen)

\* the index of the first BLANK_TOKEN token, 0 for None
FirstBlankIndex(toks) ==
    IF \E i \in 1..Len(toks) : toks[i] = BLANK_TOKEN
    THEN CHOOSE i \in 1..Len(toks) :
            /\ toks[i] = BLANK_TOKEN
            /\ \A j \in 1..(i - 1) : toks[j] # BLANK_TOKEN
    ELSE 0

\* normalized.replace(BLANK_TOKEN, placeholder).lower()
\*           .replace(placeholder.lower(), BLANK_TOKEN), atom by atom
CleanToken(t) ==
    LET held == IF t = BLANK_TOKEN THEN BLANK_PLACEHOLDER ELSE t
        low == Lower(held)
    IN  IF low = Lower(BLANK_PLACEHOLDER) THEN BLANK_TOKEN ELSE low

preprocess_text(text) ==
    IF IsEmptyText(text)
    THEN [cleaned_text |-> EmptyText, normalized_text |-> EmptyText,
          tokens |-> <<>>, glued |-> FALSE, blank_index |-> 0, blank_present |-> FALSE]
    ELSE LET marked == MarkTokens(text)
             tokens == KeepFirstBlank(marked.toks, FALSE)
             blank_index == FirstBlankIndex(tokens)
         IN  [cleaned_text |-> [w |-> [i \in 1..Len(tokens) |-> CleanToken(tokens[i])],
                                dot |-> marked.glued],
              normalized_text |-> [w |-> tokens, dot |-> marked.glued],
              tokens |-> tokens,
              glued |-> marked.glued,
              blank_index |-> blank_index,
              blank_present |-> blank_index # 0]

\* token.strip(".,!?;:") of the token before the blank, "" for None
extract_focus_word(tokens, blank_index) ==
    IF tokens = <<>> THEN ""
    ELSE IF blank_index # 0
         THEN (IF blank_index > 1 /\ tokens[blank_index - 1] # "."
               THEN tokens[blank_index - 1] ELSE "")
         ELSE LET words == SelectSeq(tokens, LAMBDA t : t # ".")
              IN  IF words = <<>> THEN "" ELSE words[Len(words)]

\* ------------------------------------------------- linguistic resources
\* The parser (spaCy) and the lexical database (WordNet) are optional
\* capabilities of the process (env.spacy, env.wn).  Their answers are fixed
\* tables over the words of the model.

\* token.pos_ of the parser
SpacyPos(a) ==
    CASE a \in {"He", "he"} -> "PRON"
      [] a \in {"The", "the"} -> "DET"
      [] a \in {"walked", "rose", "win", "walk", "rise"} -> "VERB"
      [] a \in {"moon", "order", "town"} -> "NOUN"
      [] a \in {"happy", "bright", "dark", "brilliant", "glad", "creepy", "clear",
                 "plain", "dim", "quick", "fast"} -> "ADJ"
      [] a \in {"Very", "very", "basically", "softly", "grimly", "clearly", "now",
                 "darkly", "creepily", "plainly"} -> "ADV"
      [] a \in {"in", "into"} -> "ADP"
      [] a = "to" -> "PART"
      [] a = "." -> "PUNCT"
      [] a \in {"BLANKTOKEN", "[BLANK]", "blank"} -> "PROPN"
      [] OTHER -> "X"

\* token.is_stop
SpacyStop(a) == a \in {"He", "he", "The", "the", "Very", "very", "in", "into", "to", "now"}

\* token.is_alpha
SpacyAlpha(a) == a \notin {".", "____", "...", "(blank)", "[BLANK]", " "}

\* token.lemma_.lower()
Lemma(a) ==
    CASE a = "walked" -> "walk"
      [] a = "rose" -> "rise"
      [] OTHER -> Lower(a)

\* _TOKEN_RE.findall(atom), lowercased: a letter followed by letters
RegexTokens(a) ==
    CASE a \in {".", "____", "...", " "} -> <<>>
      [] a \in {"(blank)", "[BLANK]"} -> <<"blank">>
      [] OTHER -> <<Lower(a)>>

\* the parser's tokens of an atom: it splits the brackets off a blank token
SpacyTokens(a) ==
    CASE a \in {"(blank)", "[BLANK]"} -> <<"blank">>
      [] OTHER -> <<a>>

\* One lexical-database entry: the parts of speech of the word's synsets, the
\* part of speech of its first synset, its synonyms, its derivationally
\* related forms and its lemma count capped at 20, in 1/100.
WnEntry(tags, primary, syn, deriv, freq) ==
    [tags |-> tags, primary |-> primary, syn |-> syn, deriv |-> deriv, freq |-> freq]

WnUnknown == WnEntry({}, None, <<>>, <<>>, 0)

WordNet(word) ==
    CASE word = "walked" -> WnEntry({"VERB"}, "VERB", <<"walk">>, <<"walker">>, 100)
      [] word = "walk" -> WnEntry({"VERB", "NOUN"}, "NOUN", <<"stroll">>, <<"walker">>, 100)
      [] word = "walker" -> WnEntry({"NOUN"}, "NOUN", <<>>, <<"walk">>, 10)
      [] word = "stroll" -> WnEntry({"VERB", "NOUN"}, "NOUN", <<"walk">>, <<>>, 5)
      [] word = "he" -> WnEntry({"NOUN"}, "NOUN", <<"helium">>, <<>>, 0)
      [] word = "helium" -> WnEntry({"NOUN"}, "NOUN", <<"he">>, <<>>, 5)
      [] word = "happy" -> WnEntry({"ADJ"}, "ADJ", <<"glad">>, <<"happiness">>, 100)
      [] word = "glad" -> WnEntry({"ADJ"}, "ADJ", <<"happy">>, <<"gladness">>, 60)
      [] word = "happiness" -> WnEntry({"NOUN"}, "NOUN", <<>>, <<"happy">>, 40)
      [] word = "gladness" -> WnEntry({"NOUN"}, "NOUN", <<>>, <<"glad">>, 0)
      [] word = "blank" -> WnEntry({"NOUN", "ADJ", "VERB"}, "NOUN", <<"space">>, <<>>, 10)
      [] word = "space" -> WnEntry({"NOUN", "VERB"}, "NOUN", <<"blank">>, <<>>, 100)
      [] word = "dark" -> WnEntry({"ADJ", "NOUN"}, "NOUN", <<"dim">>, <<"darkness">>, 100)
      [] word = "dim" -> WnEntry({"ADJ", "VERB"}, "VERB", <<"dark">>, <<>>, 30)
      [] word = "darkness" -> WnEntry({"NOUN"}, "NOUN", <<"dark">>, <<>>, 100)
      [] word = "creepy" -> WnEntry({"ADJ"}, "ADJ", <<>>, <<>>, 0)
      [] word = "fast" -> WnEntry({"ADJ", "ADV", "VERB", "NOUN"}, "NOUN", <<"quick">>, <<>>, 100)
      [] word = "quick" -> WnEntry({"ADJ", "ADV", "NOUN"}, "NOUN", <<"fast">>, <<"quickness">>, 100)
      [] word = "quickness" -> WnEntry({"NOUN"}, "NOUN", <<>>, <<"quick">>, 5)
      [] word = "darkly" -> WnEntry({"ADV"}, "ADV", <<>>, <<>>, 15)
      [] word = "creepily" -> WnEntry({"ADV"}, "ADV", <<>>, <<>>, 0)
      [] word = "clear" -> WnEntry({"ADJ", "ADV", "VERB", "NOUN"}, "NOUN", <<"plain">>, <<>>, 100)
      [] word = "plain" -> WnEntry({"ADJ", "ADV", "NOUN"}, "NOUN", <<"clear">>, <<>>, 100)
      [] word = "clearly" -> WnEntry({"ADV"}, "ADV", <<"plainly">>, <<>>, 100)
      [] word = "plainly" -> WnEntry({"ADV"}, "ADV", <<"clearly">>, <<>>, 20)
      [] word = "consider" -> WnEntry({"VERB"}, "VERB", <<>>, <<>>, 100)
      [] word = "explore" -> WnEntry({"VERB"}, "VERB", <<>>, <<>>, 100)
      [] word = "remember" -> WnEntry({"VERB"}, "VERB", <<>>, <<>>, 100)
      [] word = "reflect" -> WnEntry({"VERB"}, "VERB", <<>>, <<>>, 100)
      [] word = "discover" -> WnEntry({"VERB"}, "VERB", <<>>, <<>>, 100)
      [] word = "imagine" -> WnEntry({"VERB"}, "VERB", <<>>, <<>>, 100)
      [] word = "reveal" -> WnEntry({"VERB", "NOUN"}, "VERB", <<>>, <<>>, 100)
      [] word = "become" -> WnEntry({"VERB"}, "VERB", <<>>, <<>>, 100)
      [] word = "feel" -> WnEntry({"VERB", "NOUN"}, "VERB", <<>>, <<>>, 100)
      [] word = "linger" -> WnEntry({"VERB"}, "VERB", <<>>, <<>>, 45)
      [] word = "moon" -> WnEntry({"NOUN", "VERB"}, "NOUN", <<>>, <<>>, 100)
      [] word = "rose" -> WnEntry({"NOUN", "ADJ", "VERB"}, "NOUN", <<>>, <<>>, 100)
      [] word = "rise" -> WnEntry({"NOUN", "VERB"}, "NOUN", <<>>, <<>>, 100)
      [] word = "bright" -> WnEntry({"ADJ", "ADV"}, "ADJ", <<"brilliant">>, <<"brightness">>, 100)
      [] word = "brilliant" -> WnEntry({"ADJ"}, "ADJ", <<"bright">>, <<>>, 100)
      [] word = "order" -> WnEntry({"NOUN", "VERB"}, "NOUN", <<>>, <<>>, 100)
      [] word = "very" -> WnEntry({"ADJ", "ADV"}, "ADJ", <<>>, <<>>, 100)
      [] word = "basically" -> WnEntry({"ADV"}, "ADV", <<>>, <<>>, 35)
      [] OTHER -> WnUnknown

\* wn.synsets(word), None when the database is unavailable
Synsets(wn, word) == IF wn THEN WordNet(word) ELSE WnUnknown

\* ---------------------------------------------------- wordnet_service.py

STOPWORDS == {"the", "a", "an", "and", "or", "but", "to", "of", "in", "on",
              "at", "for", "by", "with", "from"}

\* Words the model uses that fail len(word) >= 3 or _WORD_RE
ShortOrMalformed == {"", "he", "ok", "old days", ".", "____", "[blank]", "it's"}

is_valid_word(word) == word \notin ShortOrMalformed /\ word \notin STOPWORDS

get_synonyms(wn, word, max_synonyms_per_word) ==
    Range(Prefix(SelectSeq(Synsets(wn, word).syn, LAMBDA s : s # word),
                 max_synonyms_per_word))

get_primary_pos(wn, word) == Synsets(wn, word).primary

get_pos_tags(wn, word) == IF word = "" THEN {} ELSE Synsets(wn, word).tags

get_derivational_forms(wn, word, max_results) ==
    Range(Prefix(SelectSeq(Synsets(wn, word).deriv,
                           LAMBDA d : d # word /\ is_valid_word(d)),
                 max_results))

estimate_frequency(wn, word) == Synsets(wn, word).freq

\* --------------------------------------------------------------- ranker.py

COPULAR_VERBS == {"be", "seem", "feel", "become", "remain", "appear", "look",
                  "sound", "smell", "taste", "grow", "get"}

IRREGULAR_ADVERBS == {"well", "fast", "hard", "late", "early", "straight", "right"}

DETERMINERS == {"a", "an", "the", "this", "that", "these", "those", "my",
                "your", "his", "her", "our", "their"}

PREPOSITIONS == {"in", "on", "at", "into", "with", "by", "for", "from", "to",
                 "of", "over", "under"}

\* An expected part of speech is a set of tags; None is the empty set (the
\* code never builds an empty set of tags).
NoPos == {}

\* str.endswith(("ed", "ing"))
EndsEdIng(word) == word \in {"walked"}

\* str.endswith("ly")
EndsLy(word) == word \in {"darkly", "creepily", "creepyly", "fastly", "clearly",
                          "plainly", "basically", "softly", "grimly", "quickly"}

\* str.endswith(("e", "ed", "ing"))
EndsVerbLike(word) == word \in {"walked", "explore", "imagine", "become", "rose",
                                "rise", "space"}

\* cleaned_text.replace(BLANK_TOKEN, "BLANKTOKEN")
PosText(cleaned) ==
    [w |-> [i \in 1..Len(cleaned.w) |->
              IF cleaned.w[i] = BLANK_TOKEN THEN BLANK_PLACEHOLDER ELSE cleaned.w[i]],
     dot |-> cleaned.dot]

\* the first index of the placeholder, 0 when it is absent
PlaceholderIndex(toks) ==
    IF \E i \in 1..Len(toks) : toks[i] = BLANK_PLACEHOLDER
    THEN CHOOSE i \in 1..Len(toks) :
            /\ toks[i] = BLANK_PLACEHOLDER
            /\ \A j \in 1..(i - 1) : toks[j] # BLANK_PLACEHOLDER
    ELSE 0

\* The branch without a parser: split() tokens; a glued "." makes the last
\* token differ from every listed word.
InferNoParser(text) ==
    LET tokens == text.w
        idx == PlaceholderIndex(tokens)
        prev == IF idx > 1 THEN Lower(tokens[idx - 1]) ELSE ""
        next_token == IF idx + 1 <= Len(tokens)
                      THEN (IF idx + 1 = Len(tokens) /\ text.dot THEN "word."
                            ELSE Lower(tokens[idx + 1]))
                      ELSE ""
    IN  IF idx = 0 THEN NoPos
        ELSE IF prev = "to" THEN {"VERB"}
        ELSE IF prev \in COPULAR_VERBS THEN {"ADJ"}
        ELSE IF prev \in DETERMINERS THEN {"NOUN", "ADJ"}
        ELSE IF EndsEdIng(prev) THEN {"ADV"}
        ELSE IF next_token \in PREPOSITIONS THEN {"NOUN"}
        ELSE NoPos

\* The branch with a parser: the document's tokens, "." being one of them.
InferWithParser(text) ==
    LET doc == IF text.dot THEN Append(text.w, ".") ELSE text.w
        blank_index == PlaceholderIndex(doc)
        hasPrev == blank_index > 1
        hasNext == blank_index + 1 <= Len(doc)
        next_pos == IF hasNext THEN SpacyPos(doc[blank_index + 1]) ELSE "X"
        byNext == IF ~hasNext THEN NoPos
                  ELSE IF next_pos \in {"NOUN", "PROPN"} THEN {"ADJ"}
                  ELSE IF next_pos \in {"VERB", "AUX"} THEN {"ADV"}
                  ELSE IF next_pos = "ADP" THEN {"NOUN"}
                  ELSE NoPos
    IN  IF blank_index = 0 THEN NoPos
        ELSE IF ~hasPrev THEN byNext
        ELSE LET prev_token == doc[blank_index - 1]
             IN  IF Lower(prev_token) = "to" THEN {"VERB"}
                 ELSE IF Lemma(prev_token) \in COPULAR_VERBS THEN {"ADJ"}
                 ELSE IF SpacyPos(prev_token) \in {"DET", "PRON"} THEN {"NOUN", "ADJ"}
                 ELSE IF SpacyPos(prev_token) \in {"VERB", "AUX"} THEN {"ADV"}
                 ELSE IF SpacyPos(prev_token) = "ADJ" THEN {"NOUN"}
                 ELSE IF SpacyPos(prev_token) = "ADP" THEN {"NOUN"}
                 ELSE byNext

infer_expected_pos(spacy, text_with_placeholder) ==
    IF spacy THEN InferWithParser(text_with_placeholder)
    ELSE InferNoParser(text_with_placeholder)

\* ------------------------------------------------------------- pipeline.py

ContentPos == {"NOUN", "VERB", "ADJ", "ADV"}

RegexTokenMap == [a \in {"He", "he", "walked", "____", "...", "(blank)", "[BLANK]",
                         ".", "happy", "BLANKTOKEN", "blanktoken", "The", "the",
                         "moon", "rose", "Very", "very", "basically", "in", "order",
                         "to", "win", "bright", "brilliant", "dark", "softly",
                         "grimly", "clearly", "now", "town", "into", " "}
                  |-> RegexTokens(a)]

SpacyTokenMap == [a \in DOMAIN RegexTokenMap |-> SpacyTokens(a)]

\* _tokenize on a sequence of atoms
_tokenize(spacy, toks) ==
    IF ~spacy THEN FlatMap(RegexTokenMap, toks)
    ELSE LET doc == FlatMap(SpacyTokenMap, toks)
             kept == SelectSeq(doc, LAMBDA t : ~SpacyStop(t) /\ SpacyAlpha(t))
         IN  [i \in 1..Len(kept) |-> Lemma(kept[i])]

_extract_content_terms(spacy, toks, limit) ==
    IF ~spacy THEN Prefix(Dedupe(_tokenize(FALSE, toks)), limit)
    ELSE LET doc == FlatMap(SpacyTokenMap, toks)
             kept == SelectSeq(doc, LAMBDA t : /\ ~SpacyStop(t)
                                               /\ SpacyAlpha(t)
                                               /\ SpacyPos(t) \in ContentPos)
         IN  Prefix(Dedupe([i \in 1..Len(kept) |-> Lemma(kept[i])]), limit)

\* A selection is [given |-> BOOLEAN, text |-> atoms, " " being whitespace].
NoSelection == [given |-> FALSE, text |-> <<>>]

RECURSIVE LStrip(_)
LStrip(s) == IF s # <<>> /\ Head(s) = " " THEN LStrip(Tail(s)) ELSE s

RECURSIVE RStrip(_)
RStrip(s) ==
    IF s # <<>> /\ s[Len(s)] = " " THEN RStrip(SubSeq(s, 1, Len(s) - 1)) ELSE s

\* the selection text taken without strip()
_get_selection_text_unstripped(selection) ==
    IF ~selection.given THEN <<>> ELSE selection.text

\* (selection.get("text") or "").strip()
_get_selection_text(selection) ==
    IF ~selection.given THEN <<>> ELSE RStrip(LStrip(selection.text))

_infer_selection_pos(spacy, wn, selection_text) ==
    LET tokens == _tokenize(spacy, selection_text)
    IN  IF tokens = <<>> THEN NoPos
        ELSE LET tags == get_pos_tags(wn, tokens[Len(tokens)])
                 mapped == SpacyPos(selection_text[Len(selection_text)])
             IN  IF tags # {} THEN tags
                 ELSE IF ~spacy THEN NoPos
                 ELSE IF mapped \in ContentPos THEN {mapped}
                 ELSE NoPos

\* detect_intent once the text is preprocessed and the selection text is
\* stripped: the decision by priority, selection before blank before sentence
DecideIntent(spacy, wn, processed, selection_text) ==
    IF selection_text # <<>>
    THEN LET terms == _extract_content_terms(spacy, selection_text, 4)
             expected_pos == _infer_selection_pos(spacy, wn, selection_text)
         IN  [intent |-> "selection",
              cleaned_text |-> processed.cleaned_text,
              blank_present |-> processed.blank_present,
              selection_text |-> selection_text,
              focus_terms |-> IF terms # <<>> THEN terms
                              ELSE Prefix(_tokenize(spacy, selection_text), 3),
              expected_pos |-> expected_pos,
              strict_pos |-> expected_pos # NoPos /\ Cardinality(expected_pos) = 1]
    ELSE IF processed.blank_present
    THEN LET focus_word == Lower(extract_focus_word(processed.tokens,
                                                    processed.blank_index))
             terms == _extract_content_terms(spacy, processed.cleaned_text.w, 5)
             expected_pos == infer_expected_pos(spacy, PosText(processed.cleaned_text))
         IN  [intent |-> "blank",
              cleaned_text |-> processed.cleaned_text,
              blank_present |-> TRUE,
              selection_text |-> <<>>,
              focus_terms |-> IF focus_word # ""
                              THEN <<focus_word>> \o
                                   SelectSeq(terms, LAMBDA t : t # focus_word)
                              ELSE terms,
              expected_pos |-> expected_pos,
              strict_pos |-> expected_pos # NoPos]
    ELSE LET terms == _extract_content_terms(spacy, processed.cleaned_text.w, 6)
         IN  [intent |-> "sentence",
              cleaned_text |-> processed.cleaned_text,
              blank_present |-> FALSE,
              selection_text |-> <<>>,
              focus_terms |-> IF terms # <<>> THEN terms
                              ELSE Prefix(_tokenize(spacy, processed.cleaned_text.w), 6),
              expected_pos |-> NoPos,
              strict_pos |-> FALSE]

detect_intent(spacy, wn, text, selection) ==
    DecideIntent(spacy, wn, preprocess_text(text), _get_selection_text(selection))

\* ------------------------------------------------------- a large vocabulary
\* A vocabulary file may list any number of words.  The large file of the
\* model lists LargeVocabulary distinct words of four lowercase letters, in
\* alphabetical order.

LargeVocabulary == 321

Letters ==
    << "a", "b", "c", "d", "e", "f", "g", "h", "i", "j", "k", "l", "m",
       "n", "o", "p", "q", "r", "s", "t", "u", "v", "w", "x", "y", "z" >>

GeneratedWord(i) == "zz" \o Letters[(i \div 26) + 1] \o Letters[(i % 26) + 1]

LargeWords == [i \in 1..LargeVocabulary |-> GeneratedWord(i - 1)]

\* ------------------------------------------------------ context_loader.py
\* What load_contexts returns for each content of data/context_vocab.json:
\* names and words stripped and lowercased, words sorted, contexts without a
\* description or without words dropped.  Words are not validated here.

ContextsOf(file) ==
    CASE file = "full" ->
            [horror |-> [description |-> "dark suspense", words |-> <<"creepy", "dark", "fast">>],
             neutral |-> [description |-> "plain language", words |-> <<"clear", "plain">>]]
      [] file = "no_neutral" ->
            [horror |-> [description |-> "dark suspense", words |-> <<"creepy", "dark", "fast">>]]
      [] file = "odd_words" ->
            [neutral |-> [description |-> "plain language", words |-> <<"ok", "old days">>]]
      [] file = "large" ->
            [horror |-> [description |-> "dark suspense", words |-> LargeWords]]

\* The files load_contexts raises on: unreadable, not JSON, no valid context.
BadContextFiles == {"missing"}

ContextFiles == {"full", "no_neutral", "odd_words"} \cup BadContextFiles

\* ----------------------------------------------------- emotion_service.py

CONTEXT_EMOTION_MAP(context) ==
    CASE context = "neutral" -> {}
      [] context = "horror" -> {"fear", "sadness"}
      [] context = "melancholic" -> {"sadness"}
      [] OTHER -> {}

\* the NRC lexicon file, when present
NrcLexicon(word) ==
    CASE word = "dark" -> {"sadness"}
      [] word = "darkness" -> {"fear", "sadness"}
      [] word = "creepy" -> {"fear", "disgust"}
      [] word = "happy" -> {"joy", "trust"}
      [] OTHER -> {}

\* emotion_score in 1/100; nrc is "present" or "absent" (an empty lexicon)
emotion_score(nrc, word, context) ==
    LET emotions == CONTEXT_EMOTION_MAP(context)
        word_emotions == IF nrc = "present" THEN NrcLexicon(word) ELSE {}
    IN  IF word = "" \/ emotions = {} \/ word_emotions = {} THEN 0
        ELSE (100 * Cardinality(word_emotions \cap emotions)) \div Cardinality(emotions)

\* --------------------------------------------------- conceptnet_service.py

\* The semantic-network service as a request finds it:
\*   up        it answers 200 with the expected JSON body
\*   down      the request times out, fails at the network level or is answered
\*             with a status other than 200
\*   odd_json  it answers 200 with JSON of another shape (a list, an edge whose
\*             "start" is null): payload.get or edge.get(...).get raises
\*             AttributeError, which is no requests.RequestException
NetStates == {"up", "down", "odd_json"}

\* The body of get_related_words ends in an exception it does not catch.
RelatedRaises(net) == net = "odd_json"

\* The body of get_related_words: the related terms when the service answers,
\* [] when the request fails
get_related_words(net, term, max_terms) ==
    IF net # "up" THEN <<>>
    ELSE Prefix(CASE term = "walk" -> <<"stroll", "old days">>
                  [] term = "walked" -> <<"walker">>
                  [] term = "happy" -> <<"glad", "smile">>
                  [] OTHER -> <<>>, max_terms)

\* The lru_cache around get_related_words is a set of <<term, result>> pairs,
\* one for every term that has been looked up without an exception.
NoRelated == {}

IsCached(cache, term) == \E p \in cache : p[1] = term

CachedResult(cache, term) == (CHOOSE p \in cache : p[1] = term)[2]

\* The source of related words for a request: the service and the cache.
RelatedSource(net, cache) == [net |-> net, cache |-> cache]

\* get_related_words as its callers see it: the cached result if there is
\* one, the result of the body otherwise
cached_get_related_words(src, term, max_terms) ==
    IF IsCached(src.cache, term) THEN CachedResult(src.cache, term)
    ELSE get_related_words(src.net, term, max_terms)

\* A call for the term ends in an exception: nothing is cached for it and the
\* body raises.
CachedRelatedRaises(src, term) == ~IsCached(src.cache, term) /\ RelatedRaises(src.net)

\* ------------------------------------------------- pipeline.py, continued

DRAFT_VERBS == {"consider", "explore", "remember", "reflect", "discover",
                "imagine", "reveal", "become", "feel", "linger"}

IRREGULAR_ADV == {"well", "fast", "hard", "late", "early", "straight", "right", "near"}

\* str.endswith("y") and len(word) > 3
EndsYLong(word) == word \in {"creepy", "happy"}

\* f"{word[:-1]}ily"
IlyForm(word) ==
    CASE word = "creepy" -> "creepily"
      [] word = "happy" -> "happily"
      [] OTHER -> "?ily"

\* f"{word}ly"
LyForm(word) ==
    CASE word = "creepy" -> "creepyly"
      [] word = "dark" -> "darkly"
      [] word = "fast" -> "fastly"
      [] word = "clear" -> "clearly"
      [] word = "plain" -> "plainly"
      [] word = "happy" -> "happyly"
      [] word = "ok" -> "okly"
      [] word = "old days" -> "old daysly"
      [] OTHER -> word \o "ly"

\* " " in word
HasSpace(word) == word \in {"old days", "old daysly"}

\* The candidate pool is a set of <<word, source>> pairs: source_map[word] is
\* the set of sources paired with word.
\* _add_candidate: the pairs it adds for one word
_add_candidate(word, source) ==
    LET cleaned == Lower(word)
    IN  IF \/ cleaned = ""
           \/ cleaned = Lower(BLANK_TOKEN)
           \/ HasSpace(cleaned)
           \/ ~is_valid_word(cleaned)
        THEN {}
        ELSE {<<cleaned, source>>}

AddAll(words, source) == UNION { _add_candidate(w, source) : w \in words }

_expand_wordnet(wn, terms, mode) ==
    UNION { LET syns == get_synonyms(wn, term, 8)
            IN  AddAll(syns, "wordnet")
                \cup UNION { AddAll(get_derivational_forms(wn, syn, 4), "derivational")
                             : syn \in syns }
                \cup (IF mode \in {"write", "rewrite"}
                      THEN AddAll(get_derivational_forms(wn, term, 8), "derivational")
                      ELSE {})
            : term \in Range(Prefix(terms, 6)) }

\* the terms _expand_conceptnet looks up
RelatedTerms(terms, mode) ==
    IF mode \notin {"write", "rewrite", "transform"} THEN {}
    ELSE Range(Prefix(terms, 3))

_expand_conceptnet(src, terms, mode) ==
    UNION { AddAll(Range(cached_get_related_words(src, term, 10)), "conceptnet")
            : term \in RelatedTerms(terms, mode) }

\* _expand_conceptnet ends in the exception of a lookup
ExpandRaises(src, terms, mode) ==
    \E term \in RelatedTerms(terms, mode) : CachedRelatedRaises(src, term)

\* the cache after _expand_conceptnet has returned
CacheAfterExpand(src, terms, mode) ==
    src.cache \cup { <<term, get_related_words(src.net, term, 10)>>
                     : term \in { t \in RelatedTerms(terms, mode) :
                                    ~IsCached(src.cache, t) } }

_add_slot_fallbacks(expected_pos, context_words) ==
    IF expected_pos = NoPos THEN {}
    ELSE IF expected_pos = {"ADV"}
    THEN UNION { IF word \in IRREGULAR_ADV THEN _add_candidate(word, "slot")
                 ELSE (IF EndsYLong(word) THEN _add_candidate(IlyForm(word), "slot") ELSE {})
                      \cup _add_candidate(LyForm(word), "slot")
                 : word \in Range(Prefix(context_words, 24)) }
    ELSE IF expected_pos = {"VERB"} THEN AddAll(DRAFT_VERBS, "slot")
    ELSE IF expected_pos = {"ADJ"} THEN AddAll(Range(Prefix(context_words, 20)), "slot")
    ELSE {}

\* sorted(): the words of the model in alphabetical order
WordOrder ==
    << "become", "blank", "clear", "clearly", "consider", "creepily", "creepy",
       "creepyly", "dark", "darkly", "darkness", "dim", "discover", "explore",
       "fast", "fastly", "feel", "glad", "gladness", "happiness", "happy",
       "helium", "imagine", "linger", "okly", "plain", "plainly", "quick", "quickness",
       "reflect", "remember", "reveal", "smile", "space", "stroll", "walk",
       "walked", "walker" >>

\* sorted(): the words of the large vocabulary and their forms in "ly" come
\* after the other words of the model, each form right after its word
LargeOrder ==
    [k \in 1..(2 * LargeVocabulary) |->
        IF k % 2 = 1 THEN LargeWords[(k + 1) \div 2] ELSE LyForm(LargeWords[k \div 2])]

WordRank ==
    [word \in Range(WordOrder) \cup Range(LargeOrder) |->
        IF word \in Range(WordOrder)
        THEN CHOOSE i \in 1..Len(WordOrder) : WordOrder[i] = word
        ELSE Len(WordOrder) + (CHOOSE k \in 1..(2 * LargeVocabulary) : LargeOrder[k] = word)]

WordIndex(word) == WordRank[word]

\* Keys of a mapping beyond which build_pipeline truncates the candidate set.
PoolCap == 320

\* set(sorted(candidates)[:320])
CapCandidates(keys) ==
    IF Cardinality(keys) > PoolCap
    THEN { k \in keys : Cardinality({ j \in keys : WordIndex(j) < WordIndex(k) }) < PoolCap }
    ELSE keys

SourcesOf(source_map, word) == { p[2] : p \in { q \in source_map : q[1] = word } }

\* contexts.get(key, {}).get("words", [])
WordsOfContext(contexts, key) ==
    IF key \in DOMAIN contexts THEN contexts[key].words ELSE <<>>

\* build_pipeline: the <<word, source>> pairs gathered for a decision
GatherCandidates(cap, mode, contexts, decision, context_words) ==
    AddAll(Range(context_words), "context")
    \cup (IF decision.focus_terms # <<>>
          THEN _expand_wordnet(cap.wn, decision.focus_terms, mode)
               \cup _expand_conceptnet(RelatedSource(cap.net, cap.related),
                                       decision.focus_terms, mode)
          ELSE {})
    \cup (IF decision.intent = "blank"
          THEN AddAll(DRAFT_VERBS, "pattern")
               \cup _add_slot_fallbacks(decision.expected_pos, context_words)
          ELSE {})
    \cup (IF decision.intent = "selection"
          THEN AddAll(Range(Prefix(decision.focus_terms, 3)), "selection")
          ELSE {})
    \cup (IF mode = "edit"
          THEN AddAll(Range(WordsOfContext(contexts, "neutral")), "neutral")
          ELSE {})

\* build_pipeline: the context words again when nothing was gathered
WithFallback(gathered, context_words) ==
    IF gathered = {} /\ context_words # <<>>
    THEN AddAll(Range(context_words), "fallback")
    ELSE gathered

\* build_pipeline: the payload for a capped candidate set
PipelinePayload(cap, context_key, contexts, decision, source_map, candidates) ==
    [decision |-> decision,
     candidates |-> candidates,
     source_map |-> source_map,
     emotion_scores |-> [w \in candidates |-> emotion_score(cap.nrc, w, context_key)],
     context_description |-> IF context_key \in DOMAIN contexts
                             THEN contexts[context_key].description
                             ELSE "the selected tone"]

\* build_pipeline: the cap on the gathered candidates
CapPipeline(cap, context_key, contexts, decision, source_map) ==
    PipelinePayload(cap, context_key, contexts, decision, source_map,
                    CapCandidates({ p[1] : p \in source_map }))

\* build_pipeline after detect_intent
PipelineFor(cap, context_key, mode, contexts, decision, context_words) ==
    CapPipeline(cap, context_key, contexts, decision,
                WithFallback(GatherCandidates(cap, mode, contexts, decision, context_words),
                             context_words))

build_pipeline(cap, text, context_key, mode, contexts, selection) ==
    PipelineFor(cap, context_key, mode, contexts,
                detect_intent(cap.spacy, cap.wn, text, selection),
                WordsOfContext(contexts, context_key))

\* build_pipeline ends in the exception of a lookup of related words
PipelineRaises(cap, text, mode, selection) ==
    ExpandRaises(RelatedSource(cap.net, cap.related),
                 detect_intent(cap.spacy, cap.wn, text, selection).focus_terms, mode)

\* the cache of related words after build_pipeline has returned
CacheAfterPipeline(cap, text, mode, selection) ==
    CacheAfterExpand(RelatedSource(cap.net, cap.related),
                     detect_intent(cap.spacy, cap.wn, text, selection).focus_terms, mode)

\* ---------------------------------------------------- ranker.py, continued

\* The fit of a candidate with the given tags and morphology, in 1/100.
\* advLike: word.endswith("ly") or word in IRREGULAR_ADVERBS;
\* verbLike: word.endswith(("e", "ed", "ing")).
GrammaticalFit(tags, advLike, verbLike, expected_pos) ==
    IF expected_pos = NoPos THEN 100
    ELSE IF tags = {} THEN 40
    ELSE IF tags \cap expected_pos # {}
    THEN (IF expected_pos = {"ADV"} THEN (IF advLike THEN 100 ELSE 45)
          ELSE IF expected_pos = {"VERB"}
          THEN (IF verbLike \/ "VERB" \in tags THEN 100 ELSE 55)
          ELSE 100)
    ELSE IF "ADJ" \in expected_pos /\ "ADV" \in tags THEN 45
    ELSE IF "ADV" \in expected_pos /\ "ADJ" \in tags THEN 45
    ELSE 0

_grammatical_fit(wn, word, expected_pos) ==
    GrammaticalFit(get_pos_tags(wn, word),
                   EndsLy(word) \/ word \in IRREGULAR_ADVERBS,
                   EndsVerbLike(word),
                   expected_pos)

\* sorted(tags)[0]
FirstTag(tags) ==
    IF "ADJ" \in tags THEN "ADJ"
    ELSE IF "ADV" \in tags THEN "ADV"
    ELSE IF "NOUN" \in tags THEN "NOUN"
    ELSE "VERB"

\* The display part of speech from the tags, the primary part of speech (None
\* when the word has no synset) and the parser's tag (None without a parser).
ResolvePos(tags, primary, parsed, expected_pos) ==
    IF expected_pos # NoPos /\ tags \cap expected_pos # {}
    THEN FirstTag(tags \cap expected_pos)
    ELSE IF primary # None THEN primary
    ELSE IF tags # {} THEN FirstTag(tags)
    ELSE IF parsed \in ContentPos THEN parsed
    ELSE "X"

_resolve_pos(spacy, wn, word, expected_pos) ==
    ResolvePos(get_pos_tags(wn, word), get_primary_pos(wn, word),
               IF spacy THEN SpacyPos(word) ELSE None, expected_pos)

\* The encoder's similarities for a word, rescaled from the cosine to [0, 1]
\* and given in 1/100: to the sentence and to the context centroid.
SemanticOf(word) ==
    CASE word \in {"walk", "stroll", "glad", "darkly"} -> 70
      [] word \in {"happy", "walked", "blank"} -> 100
      [] word \in {"dark", "creepily", "clear", "feel"} -> 56
      [] OTHER -> 48

ContextSimOf(word) ==
    CASE word \in {"dark", "darkness", "dim"} -> 80
      [] word \in {"fast", "plain", "walker"} -> 40
      [] OTHER -> 55

\* source_score, in 1/100
SourceBonus(sources) ==
    (IF "wordnet" \in sources THEN 5 ELSE 0)
    + (IF "conceptnet" \in sources THEN 3 ELSE 0)
    + (IF "context" \in sources THEN 3 ELSE 0)
    + (IF "derivational" \in sources THEN 2 ELSE 0)

\* round(score, 4) in 1/10000: the weighted sum of the features plus the
\* provenance bonus.  inVocab: the word is in the context vocabulary.
Score(weights, semantic, context_sim, emotion, grammar, frequency, sources, inVocab) ==
    weights.semantic * semantic
    + weights.context * (IF inVocab THEN Max2(context_sim, 62) ELSE context_sim)
    + weights.emotion * emotion
    + weights.grammar * grammar
    + weights.frequency * frequency
    + 100 * SourceBonus(sources)

RECURSIVE SortDescending(_)
\* list.sort(key=score, reverse=True): highest first, equal scores in their
\* order in the list
SortDescending(rows) ==
    IF rows = <<>> THEN <<>>
    ELSE LET i == CHOOSE i \in 1..Len(rows) :
                      /\ \A j \in 1..Len(rows) : rows[j].score <= rows[i].score
                      /\ \A j \in 1..(i - 1) : rows[j].score < rows[i].score
         IN  <<rows[i]>> \o SortDescending(SubSeq(rows, 1, i - 1)
                                           \o SubSeq(rows, i + 1, Len(rows)))

\* The strict filter with its threshold at 0.45
PassesNearFit(strict_pos, expected_pos, grammar) ==
    ~(strict_pos /\ expected_pos # NoPos /\ grammar < 45)

\* rank_candidates without the strict filter
PassesAlways(strict_pos, expected_pos, grammar) == TRUE

\* Whether rank_candidates keeps a candidate with this fit.
PassesStrict(strict_pos, expected_pos, grammar) ==
    ~(strict_pos /\ expected_pos # NoPos /\ grammar < 95)

\* rank_candidates once the expected part of speech is settled: the filter,
\* the scores, the sort and the cut at top_k.  The candidates are iterated in
\* alphabetical order.
RankFor(cap, candidates, emotion_scores, weights, top_k, source_map, strict_pos, expected_pos, context_words) ==
    LET kept == SelectSeq(WordOrder,
                          LAMBDA w : /\ w \in candidates
                                     /\ is_valid_word(w)
                                     /\ PassesStrict(strict_pos, expected_pos,
                                                     _grammatical_fit(cap.wn, w,
                                                                      expected_pos)))
        scored == [i \in 1..Len(kept) |->
                    [word |-> kept[i],
                     score |-> Score(weights, SemanticOf(kept[i]), ContextSimOf(kept[i]),
                                     IF kept[i] \in DOMAIN emotion_scores
                                     THEN emotion_scores[kept[i]] ELSE 0,
                                     _grammatical_fit(cap.wn, kept[i], expected_pos),
                                     estimate_frequency(cap.wn, kept[i]),
                                     SourcesOf(source_map, kept[i]),
                                     kept[i] \in context_words),
                     pos |-> _resolve_pos(cap.spacy, cap.wn, kept[i], expected_pos)]]
    IN  Prefix(SortDescending(scored \o <<>>), top_k)

rank_candidates(cap, cleaned_text, context_key, candidates, blank_present, emotion_scores, weights, top_k, source_map, strict_pos, expected_pos_override, context_words) ==
    RankFor(cap, candidates, emotion_scores, weights, top_k, source_map, strict_pos,
            IF expected_pos_override = NoPos /\ blank_present
            THEN infer_expected_pos(cap.spacy, PosText(cleaned_text))
            ELSE expected_pos_override,
            context_words)

\* -------------------------------------------------------- rewrite_service.py

COMMON_REPLACEMENTS ==
    << [src |-> <<"in", "order", "to">>, dst |-> <<"to">>],
       [src |-> <<"due", "to", "the", "fact", "that">>, dst |-> <<"because">>],
       [src |-> <<"at", "this", "point", "in", "time">>, dst |-> <<"now">>],
       [src |-> <<"in", "the", "event", "that">>, dst |-> <<"if">>],
       [src |-> <<"a", "lot", "of">>, dst |-> <<"many">>] >>

FILLER_WORDS == {"very", "really", "just", "quite", "basically", "actually", "literally"}

TONE_ADVERBS(context) ==
    CASE context = "nostalgia" -> "softly"
      [] context = "horror" -> "grimly"
      [] context = "melancholic" -> "quietly"
      [] context = "neutral" -> "clearly"
      [] OTHER -> ""

\* str.capitalize() of a lowercase word
Capitalize(a) ==
    CASE a = "he" -> "He"
      [] a = "the" -> "The"
      [] a = "very" -> "Very"
      [] a = "moon" -> "Moon"
      [] a = "rose" -> "Rose"
      [] a = "to" -> "To"
      [] a = "in" -> "In"
      [] a = "order" -> "Order"
      [] a = "walked" -> "Walked"
      [] a = "bright" -> "Bright"
      [] a = "brilliant" -> "Brilliant"
      [] a = "basically" -> "Basically"
      [] OTHER -> a

\* str[0].islower()
IsLowerFirst(a) == a \notin MarkerSpellings /\ a # "." /\ ~IsUpperFirst(a)

\* the atoms of s match src at position i, case ignored
MatchesAt(s, src, i) ==
    /\ i + Len(src) - 1 <= Len(s)
    /\ \A k \in 1..Len(src) : Lower(s[i + k - 1]) = src[k]

RECURSIVE ReplaceAll(_, _, _)
\* re.sub(r"\bsrc\b", dst, s, flags=re.IGNORECASE)
ReplaceAll(s, src, dst) ==
    IF s = <<>> THEN <<>>
    ELSE IF MatchesAt(s, src, 1)
         THEN dst \o ReplaceAll(SubSeq(s, Len(src) + 1, Len(s)), src, dst)
         ELSE <<Head(s)>> \o ReplaceAll(Tail(s), src, dst)

RECURSIVE ApplyReplacements(_, _)
ApplyReplacements(s, todo) ==
    IF todo = <<>> THEN s
    ELSE ApplyReplacements(ReplaceAll(s, Head(todo).src, Head(todo).dst), Tail(todo))

_apply_common_replacements(text) ==
    [w |-> ApplyReplacements(text.w, COMMON_REPLACEMENTS), dot |-> text.dot]

_remove_fillers(spacy, text) ==
    [w |-> SelectSeq(text.w,
                     LAMBDA a : ~(/\ Lower(a) \in FILLER_WORDS
                                  /\ (spacy => SpacyPos(a) \in {"ADV", "PART"}))),
     dot |-> text.dot]

\* The parser's judgement: a verb or auxiliary, and a token whose dependency
\* is nsubj or nsubjpass (a noun or pronoun somewhere before a verb).
_is_complete_by_dependencies(spacy, sentence) ==
    /\ spacy
    /\ \E j \in 1..Len(sentence.w) :
          /\ SpacyPos(sentence.w[j]) \in {"VERB", "AUX"}
          /\ \E i \in 1..(j - 1) : SpacyPos(sentence.w[i]) \in {"NOUN", "PRON", "PROPN"}

\* len(sentence.split())
SplitCount(text) == IF text.w = <<>> /\ text.dot THEN 1 ELSE Len(text.w)

is_sentence_complete(spacy, sentence, blank_present) ==
    IF blank_present THEN FALSE
    ELSE IF SplitCount(sentence) < 4 THEN FALSE
    ELSE IF sentence.dot THEN TRUE
    ELSE _is_complete_by_dependencies(spacy, sentence)

_ensure_terminal_punct(text, original) ==
    IF IsEmptyText(text) THEN text
    ELSE IF original.dot THEN [w |-> text.w, dot |-> TRUE]
    ELSE text

_match_leading_case(original, updated) ==
    IF IsEmptyText(original) \/ IsEmptyText(updated) THEN updated
    ELSE IF /\ original.w # <<>>
            /\ updated.w # <<>>
            /\ IsUpperFirst(original.w[1])
            /\ IsLowerFirst(updated.w[1])
         THEN [w |-> <<Capitalize(updated.w[1])>> \o Tail(updated.w), dot |-> updated.dot]
         ELSE updated

_are_synonyms(wn, base, candidate) ==
    /\ wn
    /\ WordNet(base) # WnUnknown
    /\ candidate \in Range(WordNet(base).syn) \cup {base}

RECURSIVE ReplaceFirstSynonym(_, _, _, _)
\* the loop over the document of _replace_with_suggestion, from position i
ReplaceFirstSynonym(wn, w, suggestion, i) ==
    IF i > Len(w) THEN w
    ELSE IF SpacyPos(w[i]) # SpacyPos(suggestion) \/ ~SpacyAlpha(w[i])
         THEN ReplaceFirstSynonym(wn, w, suggestion, i + 1)
    ELSE IF Lower(w[i]) = Lower(suggestion) THEN w
    ELSE IF ~_are_synonyms(wn, Lemma(w[i]), Lower(suggestion))
         THEN ReplaceFirstSynonym(wn, w, suggestion, i + 1)
    ELSE [k \in 1..Len(w) |->
            IF k = i
            THEN (IF IsUpperFirst(w[i]) THEN Capitalize(Lower(suggestion))
                  ELSE Lower(suggestion))
            ELSE w[k]]

_replace_with_suggestion(spacy, wn, text, suggestion) ==
    IF suggestion = "" THEN text
    ELSE IF ~spacy THEN text
    ELSE IF SpacyPos(suggestion) \notin {"ADJ", "ADV"} THEN text
    ELSE [w |-> ReplaceFirstSynonym(wn, text.w, suggestion, 1), dot |-> text.dot]

_inject_tone_adverb(spacy, text, context) ==
    IF ~spacy THEN text
    ELSE IF TONE_ADVERBS(Lower(context)) = "" THEN text
    ELSE IF \E i \in 2..Len(text.w) : SpacyPos(text.w[i]) \in {"VERB", "AUX"}
    THEN LET at == CHOOSE i \in 2..Len(text.w) :
                      /\ SpacyPos(text.w[i]) \in {"VERB", "AUX"}
                      /\ \A j \in 2..(i - 1) : SpacyPos(text.w[j]) \notin {"VERB", "AUX"}
         IN  [w |-> SubSeq(text.w, 1, at - 1) \o <<TONE_ADVERBS(Lower(context))>>
                    \o SubSeq(text.w, at, Len(text.w)),
              dot |-> text.dot]
    ELSE text

\* pipeline.estimate_semantic_drift, in 1/10000
estimate_semantic_drift(spacy, wn, original, rewritten) ==
    LET before == Range(_extract_content_terms(spacy, original.w, 10))
        after == Range(_extract_content_terms(spacy, rewritten.w, 10))
    IN  IF ~wn THEN 0
        ELSE IF before = {} \/ after = {} THEN 0
        ELSE 10000 - (10000 * Cardinality(before \cap after))
                        \div Max2(1, Cardinality(before))

\* The drift budget of a rewrite, in 1/10000.
DriftBudget == 5200

\* rewrite_sentence: the rewrite of the base for the mode
RewriteForMode(spacy, wn, base, context, mode, suggestions) ==
    IF mode = "write" THEN base
    ELSE IF mode = "edit" THEN _remove_fillers(spacy, base)
    ELSE IF mode = "rewrite"
    THEN LET toned == _inject_tone_adverb(spacy, _remove_fillers(spacy, base), context)
         IN  IF suggestions # <<>>
             THEN _replace_with_suggestion(spacy, wn, toned, Head(suggestions))
             ELSE toned
    ELSE base

\* rewrite_sentence: the base instead of a rewrite that drifts beyond the budget
WithinDrift(spacy, wn, base, rewritten) ==
    IF estimate_semantic_drift(spacy, wn, base, rewritten) > DriftBudget
    THEN base ELSE rewritten

\* rewrite_sentence from the base on
RewriteFrom(spacy, wn, sentence, base, context, mode, suggestions) ==
    _match_leading_case(
        sentence,
        _ensure_terminal_punct(
            WithinDrift(spacy, wn, base,
                        RewriteForMode(spacy, wn, base, context, mode, suggestions)),
            sentence))

\* rewrite_sentence without its gates on allow_rewrite and on completeness
rewrite_sentence_ungated(spacy, wn, sentence, context, mode, blank_present, allow_rewrite, suggestions) ==
    IF IsEmptyText(sentence) THEN EmptyText
    ELSE RewriteFrom(spacy, wn, sentence, _apply_common_replacements(sentence),
                     context, mode, suggestions)

rewrite_sentence(spacy, wn, sentence, context, mode, blank_present, allow_rewrite, suggestions) ==
    IF IsEmptyText(sentence) \/ ~allow_rewrite THEN EmptyText
    ELSE IF ~is_sentence_complete(spacy, sentence, blank_present) THEN EmptyText
    ELSE RewriteFrom(spacy, wn, sentence, _apply_common_replacements(sentence),
                     context, mode, suggestions)

RECURSIVE VariantLoop(_, _, _, _, _, _), VariantStep(_, _, _, _, _, _, _)
\* the loop over the suggestions in rewrite_variants
VariantLoop(spacy, wn, base, variants, todo, max_variants) ==
    IF todo = <<>> THEN variants
    ELSE VariantStep(spacy, wn, base, variants, todo, max_variants,
                     _replace_with_suggestion(spacy, wn, base, Head(todo)))

\* one iteration of the loop, for the variant made from the first suggestion
VariantStep(spacy, wn, base, variants, todo, max_variants, variant) ==
    IF IsEmptyText(variant) \/ variant \in Range(variants)
    THEN VariantLoop(spacy, wn, base, variants, Tail(todo), max_variants)
    ELSE IF estimate_semantic_drift(spacy, wn, base, variant) <= DriftBudget
    THEN (IF Len(variants) + 1 >= max_variants THEN Append(variants, variant)
          ELSE VariantLoop(spacy, wn, base, Append(variants, variant), Tail(todo),
                           max_variants))
    ELSE (IF Len(variants) >= max_variants THEN variants
          ELSE VariantLoop(spacy, wn, base, variants, Tail(todo), max_variants))

\* rewrite_variants after rewrite_sentence
VariantsOf(spacy, wn, base, mode, suggestions, max_variants) ==
    IF IsEmptyText(base) THEN <<>>
    ELSE IF suggestions # <<>> /\ mode = "rewrite"
    THEN VariantLoop(spacy, wn, base, <<base>>, suggestions, max_variants)
    ELSE <<base>>

rewrite_variants(spacy, wn, sentence, context, mode, blank_present, allow_rewrite, suggestions, max_variants) ==
    VariantsOf(spacy, wn,
               rewrite_sentence(spacy, wn, sentence, context, mode, blank_present,
                                allow_rewrite, suggestions),
               mode, suggestions, max_variants)

\* ---------------------------------------------------------- explanation.py

TONE_LABELS(context) ==
    CASE context = "nostalgia" -> "nostalgic"
      [] OTHER -> context

\* The template generate_explanation picks and the tone label it puts into it
\* (None for a template that has no tone in it).
Explanation(template, tone) == [template |-> template, tone |-> tone]

UnableToGenerate == Explanation("unable", None)

\* generate_explanation with the test for a blank put before the test for a
\* selection
ExplanationBlankFirst(context, words, mode, blank_present, selection_present, intent) ==
    LET tone == IF context # "" THEN TONE_LABELS(Lower(context)) ELSE "the selected"
    IN  IF words = <<>> THEN UnableToGenerate
        ELSE IF blank_present THEN Explanation("blank", tone)
        ELSE IF selection_present THEN Explanation("selection", tone)
        ELSE IF mode = "edit" THEN Explanation("edit", None)
        ELSE IF mode = "rewrite" THEN Explanation("rewrite", tone)
        ELSE IF intent = "sentence" THEN Explanation("sentence", tone)
        ELSE Explanation("intent", tone)

generate_explanation(context, words, mode, blank_present, selection_present, intent) ==
    LET tone == IF context # "" THEN TONE_LABELS(Lower(context)) ELSE "the selected"
    IN  IF words = <<>> THEN UnableToGenerate
        ELSE IF selection_present THEN Explanation("selection", tone)
        ELSE IF blank_present THEN Explanation("blank", tone)
        ELSE IF mode = "edit" THEN Explanation("edit", None)
        ELSE IF mode = "rewrite" THEN Explanation("rewrite", tone)
        ELSE IF intent = "sentence" THEN Explanation("sentence", tone)
        ELSE Explanation("intent", tone)

\* --------------------------------------------------------------- engine.py

\* The error initialize() stores: the step that raised.
InitErrors == {"load_contexts", "ensure_context_embeddings", "load_lexicon"}

\* embeddings.ensure_context_embeddings: the centroids afterwards.  Every
\* loaded context has words, so each gets a centroid.
ensure_context_embeddings(centroids, contexts) ==
    IF centroids # {} THEN centroids ELSE DOMAIN contexts

\* The body of the try block of initialize(): the globals afterwards.  A step
\* that raises leaves the later steps undone.
LoadShared(g, e) ==
    IF e.contexts_file \in BadContextFiles
    THEN [g EXCEPT !.error = "load_contexts",
                   !.loads.contexts = @ + 1]
    ELSE IF e.encoder = "raises" /\ g.centroids = {}
    THEN [g EXCEPT !.contexts = e.contexts_file,
                   !.error = "ensure_context_embeddings",
                   !.loads.contexts = @ + 1,
                   !.loads.embeddings = @ + 1]
    ELSE IF e.nrc = "raises" /\ ~g.lexicon_loaded
    THEN [g EXCEPT !.contexts = e.contexts_file,
                   !.centroids = ensure_context_embeddings(@, ContextsOf(e.contexts_file)),
                   !.error = "load_lexicon",
                   !.loads.contexts = @ + 1,
                   !.loads.embeddings = @ + (IF g.centroids = {} THEN 1 ELSE 0),
                   !.loads.lexicon = @ + 1]
    ELSE [g EXCEPT !.contexts = e.contexts_file,
                   !.centroids = ensure_context_embeddings(@, ContextsOf(e.contexts_file)),
                   !.lexicon_loaded = TRUE,
                   !.initialized = TRUE,
                   !.loads.contexts = @ + 1,
                   !.loads.embeddings = @ + (IF g.centroids = {} THEN 1 ELSE 0),
                   !.loads.lexicon = @ + (IF g.lexicon_loaded THEN 0 ELSE 1)]

\* initialize() trying again after a failure
initialize_retrying(g, e) ==
    IF g.initialized THEN g ELSE LoadShared([g EXCEPT !.error = None], e)

\* initialize(): the globals afterwards, given the globals g before and the
\* environment e
initialize(g, e) ==
    IF g.initialized \/ g.error # None THEN g ELSE LoadShared(g, e)

_fallback_response(detected_blank) ==
    [suggestions |-> <<>>,
     rewrite |-> EmptyText,
     rewrites |-> <<>>,
     explanation |-> UnableToGenerate,
     detected_blank |-> detected_blank]

\* next(iter(contexts)): the first context of the file
FirstContext(contexts) ==
    IF "horror" \in DOMAIN contexts THEN "horror" ELSE "neutral"

_resolve_context_key(context, contexts) ==
    LET key == Lower(context)
    IN  IF key \in DOMAIN contexts THEN key
        ELSE IF "neutral" \in DOMAIN contexts THEN "neutral"
        ELSE FirstContext(contexts)

\* weights in 1/100
_mode_weights(mode, intent) ==
    IF mode = "edit"
    THEN [semantic |-> 34, context |-> 12, emotion |-> 4, grammar |-> 36, frequency |-> 14]
    ELSE IF mode = "rewrite"
    THEN [semantic |-> 44, context |-> 24, emotion |-> 8, grammar |-> 16, frequency |-> 8]
    ELSE IF intent = "blank"
    THEN [semantic |-> 34, context |-> 16, emotion |-> 8, grammar |-> 34, frequency |-> 8]
    ELSE [semantic |-> 45, context |-> 23, emotion |-> 8, grammar |-> 16, frequency |-> 8]

\* _should_rewrite letting only mode write through
_should_rewrite_write_only(spacy, text, mode, trigger, blank_present) ==
    IF blank_present THEN FALSE
    ELSE IF ~is_sentence_complete(spacy, text, FALSE) THEN FALSE
    ELSE IF mode = "write" THEN TRUE
    ELSE mode = "rewrite" /\ trigger = "button"

\* _should_rewrite letting mode rewrite through for every trigger
_should_rewrite_any_trigger(spacy, text, mode, trigger, blank_present) ==
    IF blank_present THEN FALSE
    ELSE IF ~is_sentence_complete(spacy, text, FALSE) THEN FALSE
    ELSE mode \in {"write", "edit", "rewrite"}

_should_rewrite(spacy, text, mode, trigger, blank_present) ==
    IF blank_present THEN FALSE
    ELSE IF ~is_sentence_complete(spacy, text, FALSE) THEN FALSE
    ELSE IF mode \in {"write", "edit"} THEN TRUE
    ELSE mode = "rewrite" /\ trigger = "button"

\* [item["word"] for item in suggestions]
WordsOf(ranked) == [i \in 1..Len(ranked) |-> ranked[i].word]

\* generate_suggestions: the response assembled from the suggestions and the
\* rewrite candidates
SuggestionResponse(context_key, mode, decision, ranked, rewrite_candidates) ==
    [suggestions |-> ranked,
     rewrite |-> IF rewrite_candidates # <<>> THEN rewrite_candidates[1] ELSE EmptyText,
     rewrites |-> rewrite_candidates,
     explanation |-> generate_explanation(
                         context_key, WordsOf(ranked), mode,
                         decision.blank_present /\ decision.intent # "selection",
                         decision.intent = "selection",
                         decision.intent),
     detected_blank |-> decision.blank_present]

\* generate_suggestions: the rewrites for the ranked suggestions
RewriteAndRespond(e, text, context_key, mode, trigger, decision, ranked) ==
    SuggestionResponse(
        context_key, mode, decision, ranked,
        rewrite_variants(e.spacy, e.wn, text, context_key, mode, decision.blank_present,
                         _should_rewrite(e.spacy, text, mode, trigger,
                                         decision.blank_present),
                         WordsOf(ranked), 3))

\* generate_suggestions: the fallbacks and the ranking of the pipeline's pool
RankAndRespond(e, text, context_key, mode, trigger, context_words, pipeline) ==
    IF IsEmptyText(pipeline.decision.cleaned_text)
    THEN _fallback_response(pipeline.decision.blank_present)
    ELSE IF pipeline.candidates = {}
    THEN _fallback_response(pipeline.decision.blank_present)
    ELSE RewriteAndRespond(
             e, text, context_key, mode, trigger, pipeline.decision,
             rank_candidates(e, pipeline.decision.cleaned_text, context_key,
                             pipeline.candidates,
                             pipeline.decision.blank_present
                                 /\ pipeline.decision.intent # "selection",
                             pipeline.emotion_scores,
                             _mode_weights(mode, pipeline.decision.intent),
                             5, pipeline.source_map, pipeline.decision.strict_pos,
                             pipeline.decision.expected_pos,
                             context_words))

\* generate_suggestions for a resolved context key
SuggestFor(e, text, context_key, mode, selection, trigger, contexts) ==
    RankAndRespond(e, text, context_key, mode, trigger,
                   Range(WordsOfContext(contexts, context_key)),
                   build_pipeline(e, text, context_key, mode, contexts, selection))

\* generate_suggestions with the loaded contexts
SuggestWith(e, text, context, mode, selection, trigger, contexts) ==
    SuggestFor(e, text, _resolve_context_key(context, contexts), mode, selection,
               trigger, contexts)

\* generate_suggestions after initialize(): the response, given the globals
generate_suggestions(g, e, text, context, mode, selection, trigger) ==
    IF ~g.initialized \/ g.contexts = None THEN _fallback_response(FALSE)
    ELSE SuggestWith(e, text, context, mode, selection, trigger, ContextsOf(g.contexts))

\* generate_suggestions ends in an exception: build_pipeline raises
SuggestRaises(g, e, text, mode, selection) ==
    /\ g.initialized
    /\ g.contexts # None
    /\ PipelineRaises(e, text, mode, selection)

\* the cache of related words after generate_suggestions
CacheAfterSuggest(g, e, text, mode, selection) ==
    IF ~g.initialized \/ g.contexts = None THEN e.related
    ELSE IF PipelineRaises(e, text, mode, selection) THEN e.related
    ELSE CacheAfterPipeline(e, text, mode, selection)

\* (mode or "write").strip().lower()
ModeKey(mode) == IF mode = "" THEN "write" ELSE Lower(mode)

\* ----------------------------------------------------------- ml_reranker.py
\* Scores and learned scores are in 1/10000, the blend factor in 1/100.

\* value.strip().lower() on the values the switch takes in the model
StripLower(value) ==
    CASE value = " TRUE " -> "true"
      [] value = "On" -> "on"
      [] OTHER -> value

\* _truthy_env comparing the value as it is, without strip() and lower()
_truthy_env_exact(value) == value \in {"1", "true", "yes", "on"}

\* value is None for an unset variable
_truthy_env(value) ==
    IF value = None THEN FALSE
    ELSE StripLower(value) \in {"1", "true", "yes", "on"}

\* _CACHED_MTIME = None
NoMtime == 0

\* _CACHED_ARTIFACT = None
NoArtifact == [kind |-> "None"]

NoCache == [mtime |-> NoMtime, artifact |-> NoArtifact]

\* The artifact file: absent, or its content kind and modification time.
\*   unreadable  read_bytes() raises
\*   not_pickle  pickle.loads raises
\*   no_keys     a pickled dict without "vectorizer" or "model"
\*   list        a pickled list holding neither name
\*   names       a pickled list (or string) holding both names
\*   number      a pickled number, or None: `in` is not defined on it
\*   raising     a pickled dict whose vectorizer or model raises when called
\*   labels      a dict with a model of classes 0..3
\*   signed      a dict with a model of classes -1 and 1
AbsentFile == [kind |-> "absent", mtime |-> NoMtime]

UnpicklableKinds == {"unreadable", "not_pickle"}

MappingKinds == {"no_keys", "raising", "labels", "signed"}

FileKinds == UnpicklableKinds \cup MappingKinds \cup {"list", "names", "number"}

\* pickle.loads(artifact_path.read_bytes())
PayloadOf(file) == [kind |-> file.kind, version |-> file.mtime]

\* "vectorizer" not in payload or "model" not in payload
LacksKeys(payload) == payload.kind \in {"no_keys", "list"}

\* The cache test that does not compare modification times
CacheHitAnyMtime(cache, mtime) == cache.artifact # NoArtifact

\* The lookup under the lock answers from the cache.
CacheHit(cache, mtime) == cache.artifact # NoArtifact /\ cache.mtime = mtime

\* The outcome of _load_artifact for the cache and the file: whether it
\* raised, what it returned and the cache afterwards.
LoadOutcome(raised, artifact, cache) ==
    [raised |-> raised, artifact |-> artifact, cache |-> cache]

_load_artifact(cache, file) ==
    IF file.kind = "absent" THEN LoadOutcome(FALSE, NoArtifact, cache)
    ELSE IF CacheHit(cache, file.mtime)
    THEN LoadOutcome(FALSE, cache.artifact, cache)
    ELSE IF file.kind \in UnpicklableKinds THEN LoadOutcome(FALSE, NoArtifact, NoCache)
    ELSE IF file.kind = "number" THEN LoadOutcome(TRUE, NoArtifact, cache)
    ELSE IF LacksKeys(PayloadOf(file)) THEN LoadOutcome(FALSE, NoArtifact, NoCache)
    ELSE LoadOutcome(FALSE, PayloadOf(file),
                     [mtime |-> file.mtime, artifact |-> PayloadOf(file)])

\* The call reaches read_bytes(): it gets as far as _load_artifact, the file
\* exists and the cache does not answer.
ReadsArtifact(switch, cache, file, candidates) ==
    /\ candidates # <<>>
    /\ ~_truthy_env(switch)
    /\ file.kind # "absent"
    /\ ~CacheHit(cache, file.mtime)

\* model.classes_
ClassesOf(artifact) ==
    CASE artifact.kind = "labels" -> {0, 1, 2, 3}
      [] artifact.kind = "signed" -> {-1, 1}
      [] OTHER -> {}

\* _prob_to_score: the expected label of a candidate, in 1/10000
RawScore(artifact, word) ==
    CASE artifact.kind = "labels" /\ word = "alpha" -> 18000
      [] artifact.kind = "labels" /\ word = "beta" -> 15000
      [] artifact.kind = "signed" /\ word = "alpha" -> 5000
      [] artifact.kind = "signed" /\ word = "beta" -> -5000
      [] OTHER -> 0

SetMax(S) == CHOOSE x \in S : \A y \in S : y <= x

\* float(max(model.classes_)) if len(model.classes_) else 3.0, and 3.0 again
\* for a maximum that is not positive
MaxLabel(classes) ==
    IF classes = {} THEN 3
    ELSE IF SetMax(classes) <= 0 THEN 3
    ELSE SetMax(classes)

\* min(max(x, lo), hi)
Clamp(x, lo, hi) == Min2(Max2(x, lo), hi)

\* round(x / d) to the nearest integer, halves to the even one
RoundHalfEven(x, d) ==
    LET q == x \div d
        r == x % d
    IN  IF 2 * r < d THEN q
        ELSE IF 2 * r > d THEN q + 1
        ELSE IF q % 2 = 0 THEN q ELSE q + 1

\* (item.get(text_key) or "").strip()
StripWord(word) == IF word = " " THEN "" ELSE word

\* The learned score of a row: raw_score / max_label, clamped to [0, 1]
MlScore(artifact, row) ==
    Clamp(RawScore(artifact, StripWord(row.word)) \div MaxLabel(ClassesOf(artifact)),
          0, 10000)

\* The blend taking the factor as it is given
BlendUnclamped(artifact, blend, row) ==
    [word |-> row.word,
     score |-> RoundHalfEven(blend * MlScore(artifact, row) + (100 - blend) * row.score, 100),
     ml_score |-> MlScore(artifact, row)]

\* One reranked row: the blended score and the learned score, rounded
Blend(artifact, blend, row) ==
    [word |-> row.word,
     score |-> RoundHalfEven(Clamp(blend, 0, 100) * MlScore(artifact, row)
                             + (100 - Clamp(blend, 0, 100)) * row.score, 100),
     ml_score |-> MlScore(artifact, row)]

\* max_results = None
NoMax == [given |-> FALSE, n |-> 0]

\* candidates[:max_results] if max_results else candidates
PassThrough(candidates, max_results) ==
    IF ~max_results.given \/ max_results.n = 0 THEN candidates
    ELSE IF max_results.n > 0 THEN Prefix(candidates, max_results.n)
    ELSE Prefix(candidates, Max2(0, Len(candidates) + max_results.n))

\* The outcome of a call: the list it returns, or the exception it raises.
Returned(result) == [raised |-> FALSE, result |-> result]

Raised(error) == [raised |-> TRUE, error |-> error]

\* the rows whose stripped word is not empty
ActiveRows(candidates) == SelectSeq(candidates, LAMBDA row : StripWord(row.word) # "")

\* the blended rows left in their input order
RerankedUnsorted(artifact, blend, active_rows) ==
    [i \in 1..Len(active_rows) |-> Blend(artifact, blend, active_rows[i])]

\* the blended rows, sorted
Reranked(artifact, blend, active_rows) ==
    SortDescending([i \in 1..Len(active_rows) |-> Blend(artifact, blend, active_rows[i])])

\* rerank_candidate_dicts once the artifact is loaded
RerankWith(artifact, candidates, blend, max_results) ==
    IF artifact.kind = "names" THEN Raised("TypeError")
    ELSE IF ActiveRows(candidates) = <<>>
    THEN Returned(PassThrough(candidates, max_results))
    ELSE IF artifact.kind = "raising"
    THEN Returned(PassThrough(candidates, max_results))
    ELSE IF max_results.given
    THEN Returned(Prefix(Reranked(artifact, blend, ActiveRows(candidates)),
                         Max2(1, max_results.n)))
    ELSE Returned(Reranked(artifact, blend, ActiveRows(candidates)))

\* rerank_candidate_dicts after _load_artifact
RerankLoaded(loaded, candidates, blend, max_results) ==
    IF loaded.raised THEN Raised("TypeError")
    ELSE IF loaded.artifact = NoArtifact
    THEN Returned(PassThrough(candidates, max_results))
    ELSE RerankWith(loaded.artifact, candidates, blend, max_results)

\* rerank_candidate_dicts: the outcome, for the switch, the cache and the file
rerank_candidate_dicts(switch, cache, file, candidates, blend, max_results) ==
    IF candidates = <<>> THEN Returned(candidates)
    ELSE IF _truthy_env(switch) THEN Returned(PassThrough(candidates, max_results))
    ELSE RerankLoaded(_load_artifact(cache, file), candidates, blend, max_results)

\* The cache after a call: _load_artifact runs only with the reranker enabled
\* and a non-empty candidate list.
CacheAfter(switch, cache, file, candidates) ==
    IF candidates = <<>> \/ _truthy_env(switch) THEN cache
    ELSE _load_artifact(cache, file).cache

\* ------------------------------------------------------------ environment
\* The process environment: the optional capabilities (parser, lexical
\* database), the semantic-network service and the data files.

HealthyEnv ==
    [spacy |-> TRUE, wn |-> TRUE, net |-> "up", contexts_file |-> "full",
     encoder |-> "ok", nrc |-> "present"]

Envs ==
    { [HealthyEnv EXCEPT !.spacy = sp, !.wn = wn] : sp \in BOOLEAN, wn \in BOOLEAN }
    \cup { [HealthyEnv EXCEPT !.net = n] : n \in NetStates \ {"up"} }
    \cup { [HealthyEnv EXCEPT !.contexts_file = f] : f \in ContextFiles }
    \cup { [HealthyEnv EXCEPT !.encoder = "raises"] }
    \cup { [HealthyEnv EXCEPT !.nrc = n] : n \in {"absent", "raises"} }

\* ------------------------------------------------- constraints_service.py
\* Scores are in 1/10000, similarities and the other features in 1/100.

\* (word or "").replace("_", " ").strip().lower(); None gives ""
_clean_word(word) == IF word = None THEN "" ELSE Lower(word)

\* pronouncing.rhymes(word): the rhymes the pronouncing dictionary lists
PronouncingRhymes(word) ==
    CASE word = "sad" -> <<"glad", "mad", "glad">>
      [] word = "glad" -> <<"sad", "mad">>
      [] word = "night" -> <<"bright", "light">>
      [] word = "day" -> <<"ok">>
      [] OTHER -> <<>>

\* pronouncing.phones_for_word(word)[0].split()[-1] without its stress digit;
\* None for a word the dictionary does not list
PhoneTail(word) ==
    CASE word \in {"sad", "glad", "mad"} -> "D"
      [] word \in {"night", "bright", "light", "brilliant"} -> "T"
      [] word \in {"happy", "unhappy"} -> "IY"
      [] word \in {"moon"} -> "N"
      [] word \in {"day", "ok"} -> "EY"
      [] OTHER -> None

\* lemma.antonyms() over the synsets of a word
WordNetAntonyms(word) ==
    CASE word = "happy" -> <<"unhappy", "sad">>
      [] word = "bright" -> <<"dim">>
      [] OTHER -> <<>>

\* _scale(_cosine_similarity(embedding of a, embedding of b))
WordSimilarity(a, b) ==
    IF a = b THEN 100
    ELSE IF {a, b} \in {{"happy", "glad"}, {"bright", "brilliant"}, {"bright", "light"}} THEN 80
    ELSE IF {a, b} \in {{"happy", "sad"}, {"happy", "unhappy"}} THEN 62
    ELSE 50

\* The orders in which a set of strings may be iterated
HashOrders ==
    { <<"bright", "brightness", "brilliant", "dim", "glad", "happiness", "happy",
        "light", "mad", "moon", "sad", "unhappy">>,
      <<"unhappy", "sad", "moon", "mad", "light", "happy", "happiness", "glad",
        "dim", "brilliant", "brightness", "bright">> }

\* list(a_set) under one iteration order
ListOf(S, hash_order) == SelectSeq(hash_order, LAMBDA w : w \in S)

_collect_rhymes(pron, word) ==
    IF word = "" \/ ~pron THEN <<>>
    ELSE Dedupe(SelectSeq(PronouncingRhymes(word), is_valid_word))

_collect_meaning(wn, word, relation) ==
    IF ~wn \/ word = "" THEN {}
    ELSE IF relation = "synonym"
    THEN { w \in {word} \cup get_synonyms(wn, word, 30)
                        \cup get_derivational_forms(wn, word, 20) : is_valid_word(w) }
    ELSE { w \in Range(WordNetAntonyms(word)) : is_valid_word(w) }

\* _get_context_words: the words of the context in the contexts file, none
\* for no context, an unknown context or a file that does not load
_get_context_words(contexts_file, context) ==
    IF context = None \/ contexts_file \in BadContextFiles THEN {}
    ELSE Range(WordsOfContext(ContextsOf(contexts_file), Lower(context)))

\* in 1/100
_semantic_similarity(word, target) == WordSimilarity(word, target)

\* The centroid is absent until the engine is initialized: the cosine is 0.
_context_similarity(centroids, word, context) ==
    IF context = None THEN 0
    ELSE IF Lower(context) \in centroids THEN ContextSimOf(word)
    ELSE 50

_rhyme_quality(pron, word, rhyme_with) ==
    IF ~pron THEN (IF word = rhyme_with THEN 100 ELSE 0)
    ELSE IF PhoneTail(word) = None \/ PhoneTail(rhyme_with) = None
    THEN (IF word \in Range(_collect_rhymes(pron, rhyme_with)) THEN 100 ELSE 0)
    ELSE IF PhoneTail(word) = PhoneTail(rhyme_with) THEN 100 ELSE 0

\* The parts of the reason text, in order
_build_reason(rhyme_match, relation_match, semantic, context_hit, best_effort) ==
    (IF rhyme_match THEN <<"rhymes">> ELSE IF best_effort THEN <<"closest_rhyme">> ELSE <<>>)
    \o (IF relation_match THEN <<"relation">> ELSE IF semantic >= 58 THEN <<"near">> ELSE <<>>)
    \o (IF context_hit THEN <<"tone">> ELSE <<>>)

NoOverlapNote == "No strict rhyme+meaning overlap. Showing best-effort ranked matches."

NoRhymeNote == "No rhyme candidates found. Showing strongest meaning matches."

NoMatchNote == "No matches found for the provided constraints."

\* One result row of get_constraint_matches for a candidate
ConstraintRow(e, centroids, candidate, rhyme_base, meaning_base, context, rhyme_match, relation_match, best_effort, context_words) ==
    LET rhyme_score == IF rhyme_base # "" THEN _rhyme_quality(e.pronouncing, candidate, rhyme_base) ELSE 0
        semantic == IF meaning_base # "" THEN _semantic_similarity(candidate, meaning_base) ELSE 0
        relation_score == IF relation_match THEN 100 ELSE semantic
        similarity == _context_similarity(centroids, candidate, context)
        context_score == IF candidate \in context_words THEN Max2(similarity, 68) ELSE similarity
        score == 40 * rhyme_score + 32 * relation_score + 16 * semantic + 7 * context_score
                 + 5 * estimate_frequency(e.wn, candidate)
                 + (IF rhyme_match /\ relation_match THEN 800 ELSE 0)
    IN  [word |-> candidate,
         score |-> Min2(score, 9900),
         rhyme |-> rhyme_match,
         relation_match |-> relation_match,
         reason |-> _build_reason(rhyme_match, relation_match, semantic,
                                  candidate \in context_words \/ context_score >= 62,
                                  best_effort)]

\* The sort key (score, relation_match, rhyme) of row a is below that of row b
KeyBelow(a, b) ==
    \/ a.score < b.score
    \/ a.score = b.score /\ ~a.relation_match /\ b.relation_match
    \/ a.score = b.score /\ a.relation_match = b.relation_match /\ ~a.rhyme /\ b.rhyme

RECURSIVE SortByKey(_)
\* results.sort(key=..., reverse=True): highest key first, equal keys in their
\* order in the list
SortByKey(rows) ==
    IF rows = <<>> THEN <<>>
    ELSE LET i == CHOOSE i \in 1..Len(rows) :
                      /\ \A j \in 1..Len(rows) : ~KeyBelow(rows[i], rows[j])
                      /\ \A j \in 1..(i - 1) : KeyBelow(rows[j], rows[i])
         IN  <<rows[i]>> \o SortByKey(SubSeq(rows, 1, i - 1)
                                      \o SubSeq(rows, i + 1, Len(rows)))

\* max(1, min(10, int(limit or 10)))
CappedLimit(limit) == Max2(1, Min2(10, IF limit = 0 THEN 10 ELSE limit))

ConstraintPoolCap == 260

\* The pool that offers every gathered candidate even when exact matches exist
CandidatePoolAll(rhyme_candidates, meaning_candidates, hash_order) ==
    Prefix(Dedupe(rhyme_candidates \o ListOf(meaning_candidates, hash_order)), ConstraintPoolCap)

\* The candidate pool: the exact matches if there are any, else the rhymes
\* followed by the meaning candidates
CandidatePool(rhyme_candidates, meaning_candidates, hash_order) ==
    LET exact_matches == ListOf(Range(rhyme_candidates) \cap meaning_candidates, hash_order)
    IN  Prefix(IF exact_matches # <<>> THEN exact_matches
               ELSE IF rhyme_candidates # <<>>
               THEN Dedupe(rhyme_candidates \o ListOf(meaning_candidates, hash_order))
               ELSE ListOf(meaning_candidates, hash_order),
               ConstraintPoolCap)

PoolNote(rhyme_candidates, meaning_candidates) ==
    IF Range(rhyme_candidates) \cap meaning_candidates # {} THEN None
    ELSE IF rhyme_candidates # <<>> THEN NoOverlapNote
    ELSE NoRhymeNote

\* The (results, note) pair for the gathered candidates
MatchesFor(e, centroids, rhyme_base, meaning_base, context, limit, rhyme_candidates, meaning_candidates, hash_order) ==
    LET pool == CandidatePool(rhyme_candidates, meaning_candidates, hash_order)
        note == PoolNote(rhyme_candidates, meaning_candidates)
        context_words == _get_context_words(e.contexts_file, context)
        rows == [i \in 1..Len(pool) |->
                    ConstraintRow(e, centroids, pool[i], rhyme_base, meaning_base, context,
                                  pool[i] \in Range(rhyme_candidates),
                                  pool[i] \in meaning_candidates,
                                  note # None, context_words)]
    IN  IF pool = <<>> THEN [results |-> <<>>, note |-> NoMatchNote]
        ELSE [results |-> Prefix(SortByKey(rows), CappedLimit(limit)), note |-> note]

get_constraint_matches(e, centroids, rhyme_with, relation, meaning_of, context, limit, hash_order) ==
    MatchesFor(e, centroids, _clean_word(rhyme_with), _clean_word(meaning_of), context, limit,
               _collect_rhymes(e.pronouncing, _clean_word(rhyme_with)),
               _collect_meaning(e.wn, _clean_word(meaning_of), relation), hash_order)

\* The encoder is asked for an embedding and raises: some candidate is scored
\* against a meaning word or a context.
ConstraintsRaise(e, rhyme_with, relation, meaning_of, context, hash_order) ==
    /\ e.encoder = "raises"
    /\ CandidatePool(_collect_rhymes(e.pronouncing, _clean_word(rhyme_with)),
                     _collect_meaning(e.wn, _clean_word(meaning_of), relation),
                     hash_order) # <<>>
    /\ (_clean_word(meaning_of) # "" \/ context # None)

\* --------------------------------------------------------------- actions

Globals ==
    [contexts |-> _CONTEXTS,
     initialized |-> _INITIALIZED,
     error |-> _INITIALIZATION_ERROR,
     centroids |-> _context_centroids,
     lexicon_loaded |-> _LOADED,
     loads |-> loads]

\* artifact: the loads of the artifact file since it was last written
NoLoads == [contexts |-> 0, embeddings |-> 0, lexicon |-> 0, artifact |-> 0]

NoRequest == [op |-> "none"]

\* No calls overlap: one call at a time, described by pc, req and resp.
NoThreads == <<>>

NoResponse == [op |-> "none"]

EngineGlobals == << _CONTEXTS, _INITIALIZED, _INITIALIZATION_ERROR,
                    _context_centroids, _LOADED, loads, _related_cache >>

\* The capabilities a request runs with: the environment and the cache of
\* related words.
Capabilities(e, cache) ==
    [spacy |-> e.spacy, wn |-> e.wn, net |-> e.net, contexts_file |-> e.contexts_file,
     encoder |-> e.encoder, nrc |-> e.nrc, related |-> cache]

RerankerGlobals == << _CACHED_MTIME, _CACHED_ARTIFACT >>

\* The modules right after import: nothing loaded, nothing cached.
Imported ==
    /\ _CONTEXTS = None
    /\ _INITIALIZED = FALSE
    /\ _INITIALIZATION_ERROR = None
    /\ _context_centroids = {}
    /\ _LOADED = FALSE
    /\ loads = NoLoads
    /\ _related_cache = NoRelated
    /\ _CACHED_MTIME = NoMtime
    /\ _CACHED_ARTIFACT = NoArtifact

\* The process right after import, answering one call at a time.
ProcessStart ==
    /\ Imported
    /\ pc = "idle"
    /\ req = NoRequest
    /\ resp = NoResponse
    /\ threads = NoThreads

\* One call of generate_suggestions: initialize(), then the response, or the
\* exception that leaves the call.
Suggest(text, context, mode, selection, trigger) ==
    /\ pc = "idle"
    /\ LET g == initialize(Globals, env)
       IN  /\ _CONTEXTS' = g.contexts
           /\ _INITIALIZED' = g.initialized
           /\ _INITIALIZATION_ERROR' = g.error
           /\ _context_centroids' = g.centroids
           /\ _LOADED' = g.lexicon_loaded
           /\ loads' = g.loads
           /\ pc' = IF SuggestRaises(g, Capabilities(env, _related_cache), text,
                                     ModeKey(mode), selection)
                    THEN "raised" ELSE "done"
           /\ _related_cache' = CacheAfterSuggest(g, Capabilities(env, _related_cache),
                                                  text, ModeKey(mode), selection)
           /\ resp' = IF pc' = "raised" THEN NoResponse
                      ELSE generate_suggestions(g, Capabilities(env, _related_cache),
                                                text, context, ModeKey(mode), selection,
                                                trigger)
    /\ req' = [op |-> "suggest", text |-> text, context |-> context, mode |-> mode,
               selection |-> selection, trigger |-> trigger]
    /\ UNCHANGED << threads, env, RerankerGlobals, artifact_file, disable_switch >>

\* The response has been delivered; the process waits for the next request.
Return ==
    /\ pc \in {"done", "raised"}
    /\ pc' = "idle"
    /\ req' = NoRequest
    /\ resp' = NoResponse
    /\ UNCHANGED << threads, EngineGlobals, env, RerankerGlobals, artifact_file, disable_switch >>

\* A data file is replaced or a capability comes or goes while the process runs.
EnvChange ==
    /\ pc = "idle"
    /\ env' \in Envs \ {env}
    /\ UNCHANGED << threads, EngineGlobals, RerankerGlobals, artifact_file, disable_switch,
                    pc, req, resp >>

\* One call of pipeline.detect_intent.
DetectIntent(text, selection) ==
    /\ pc = "idle"
    /\ req' = [op |-> "detect_intent", text |-> text, selection |-> selection]
    /\ resp' = detect_intent(env.spacy, env.wn, text, selection)
    /\ pc' = "done"
    /\ UNCHANGED << threads, EngineGlobals, env, RerankerGlobals, artifact_file, disable_switch >>

\* One call of ranker.rank_candidates' scoring of a candidate whose features
\* the encoder, the lexicons and the pool give as stated.
RankOne(weights, semantic, context_sim, emotion, grammar, frequency, sources, inVocab) ==
    /\ pc = "idle"
    /\ req' = [op |-> "rank", weights |-> weights, semantic |-> semantic,
               context_sim |-> context_sim, emotion |-> emotion, grammar |-> grammar,
               frequency |-> frequency, sources |-> sources, inVocab |-> inVocab]
    /\ resp' = [score |-> Score(weights, semantic, context_sim, emotion, grammar,
                                frequency, sources, inVocab)]
    /\ pc' = "done"
    /\ UNCHANGED << threads, EngineGlobals, env, RerankerGlobals, artifact_file, disable_switch >>

\* One call of ml_reranker.rerank_candidate_dicts.
Rerank(candidates, blend, max_results) ==
    /\ pc = "idle"
    /\ req' = [op |-> "rerank", candidates |-> candidates, blend |-> blend,
               max_results |-> max_results]
    /\ resp' = rerank_candidate_dicts(disable_switch,
                                      [mtime |-> _CACHED_MTIME,
                                       artifact |-> _CACHED_ARTIFACT],
                                      artifact_file, candidates, blend, max_results)
    /\ _CACHED_MTIME' = CacheAfter(disable_switch,
                                   [mtime |-> _CACHED_MTIME, artifact |-> _CACHED_ARTIFACT],
                                   artifact_file, candidates).mtime
    /\ _CACHED_ARTIFACT' = CacheAfter(disable_switch,
                                      [mtime |-> _CACHED_MTIME,
                                       artifact |-> _CACHED_ARTIFACT],
                                      artifact_file, candidates).artifact
    /\ loads' = IF ReadsArtifact(disable_switch,
                                 [mtime |-> _CACHED_MTIME, artifact |-> _CACHED_ARTIFACT],
                                 artifact_file, candidates)
                THEN [loads EXCEPT !.artifact = Min2(@ + 1, LoadCountCap)]
                ELSE loads
    /\ pc' = "done"
    /\ UNCHANGED << threads, _CONTEXTS, _INITIALIZED, _INITIALIZATION_ERROR, _context_centroids,
                    _LOADED, _related_cache, env, artifact_file, disable_switch >>

\* The artifact file is written, replaced or removed between two calls; a
\* written file gets the other modification time.
ReplaceArtifact(kind) ==
    /\ pc = "idle"
    /\ artifact_file' = IF kind = "absent" THEN AbsentFile
                        ELSE [kind |-> kind,
                              mtime |-> IF artifact_file.mtime = 1 THEN 2 ELSE 1]
    /\ artifact_file' # artifact_file
    /\ loads' = [loads EXCEPT !.artifact = 0]
    /\ UNCHANGED << threads, _CONTEXTS, _INITIALIZED, _INITIALIZATION_ERROR, _context_centroids,
                    _LOADED, _related_cache, env, RerankerGlobals, disable_switch,
                    pc, req, resp >>

\* One call of rewrite_service.rewrite_sentence and rewrite_variants.
Rewrite(sentence, context, mode, suggestions) ==
    /\ pc = "idle"
    /\ req' = [op |-> "rewrite", sentence |-> sentence, context |-> context,
               mode |-> mode, suggestions |-> suggestions]
    /\ resp' = [rewrite |-> rewrite_sentence(env.spacy, env.wn, sentence, context, mode,
                                             FALSE, TRUE, suggestions),
                rewrites |-> rewrite_variants(env.spacy, env.wn, sentence, context, mode,
                                              FALSE, TRUE, suggestions, 3)]
    /\ pc' = "done"
    /\ UNCHANGED << threads, EngineGlobals, env, RerankerGlobals, artifact_file, disable_switch >>

\* A cache that keeps no empty result.
RelatedCacheSkippingEmpty(cache, term, outcome) ==
    IF outcome.raised \/ outcome.result = <<>> THEN cache
    ELSE cache \cup {<<term, outcome.result>>}

\* lru_cache: the cache after a call for the term; what the body returned is
\* kept, the empty list of a failed request included; an exception is not.
RelatedCacheAfter(cache, term, outcome) ==
    IF outcome.raised THEN cache
    ELSE cache \cup {<<term, outcome.result>>}

\* One call of conceptnet_service.get_related_words(term, max_terms=10).
\* hit: the lru_cache answers and the body does not run.
Related(term) ==
    /\ pc = "idle"
    /\ req' = [op |-> "related", term |-> term, hit |-> IsCached(_related_cache, term)]
    /\ resp' = IF CachedRelatedRaises(RelatedSource(env.net, _related_cache), term)
               THEN Raised("AttributeError")
               ELSE Returned(cached_get_related_words(
                                 RelatedSource(env.net, _related_cache), term, 10))
    /\ _related_cache' = RelatedCacheAfter(_related_cache, term, resp')
    /\ pc' = "done"
    /\ UNCHANGED << threads, _CONTEXTS, _INITIALIZED, _INITIALIZATION_ERROR, _context_centroids,
                    _LOADED, loads, env, RerankerGlobals, artifact_file, disable_switch >>

\* ------------------------------------------------------------ request sets

Modes == {"write", "edit", "rewrite"}

Triggers == {"auto", "button"}

ContextKeys == {"horror", "unknown"}

Selections ==
    { NoSelection,
      [given |-> TRUE, text |-> <<" ">>],
      [given |-> TRUE, text |-> <<" ", "happy", " ">>] }

Texts(atoms, n) == { [w |-> w, dot |-> d] : w \in SeqsUpTo(atoms, n), d \in BOOLEAN }

\* ------------------------------------------------- specification: lifecycle
\* The life of one process: requests arrive while the environment changes.

LifecycleTexts ==
    { EmptyText,
      [w |-> <<"He", "walked", "____">>, dot |-> TRUE],
      [w |-> <<"He", "walked", "He", "walked">>, dot |-> TRUE] }

Init ==
    /\ ProcessStart
    /\ env \in Envs
    /\ artifact_file = AbsentFile
    /\ disable_switch = None

SuggestStep ==
    /\ pc = "idle"
    /\ \E text \in LifecycleTexts, context \in ContextKeys, mode \in Modes,
       trigger \in Triggers :
       Suggest(text, context, mode, NoSelection, trigger)

Next == SuggestStep \/ Return \/ EnvChange

Spec == Init /\ [][Next]_vars

\* ------------------------------------------------- specification: requests
\* The first request of a process, over short texts, in every environment.

\* the words of a text with at most one of them replaced by a blank marker
OneBlank(w) == { [w EXCEPT ![i] = "____"] : i \in 1..Len(w) }

SuggestTexts ==
    { [w |-> w, dot |-> d] :
        w \in UNION { {v} \cup OneBlank(v) : v \in SeqsUpTo({"He", "walked"}, MaxLen) },
        d \in BOOLEAN }

SuggestSelections == { NoSelection, [given |-> TRUE, text |-> <<" ", "happy", " ">>] }

SuggestAny ==
    /\ pc = "idle"
    /\ \E text \in SuggestTexts, context \in ContextKeys, mode \in Modes,
          selection \in SuggestSelections, trigger \in Triggers :
          Suggest(text, context, mode, selection, trigger)

SpecSuggest == Init /\ [][SuggestAny]_vars

\* -------------------------------------------- specification: intent detection

IntentAtoms == {"The", "walked", "____", "BLANKTOKEN"}

DetectAny ==
    /\ pc = "idle"
    /\ \E text \in Texts(IntentAtoms, MaxLen), selection \in Selections :
          DetectIntent(text, selection)

SpecIntent == Init /\ [][DetectAny]_vars

\* ----------------------------------------------------- specification: scoring
\* rank_candidates' score over a grid of feature values, for the weights of
\* every mode and intent and every set of provenance tags.

FeatureGrid == {0, 50, 100}

WeightTuples == { _mode_weights(mode, intent) : mode \in Modes,
                                                 intent \in {"blank", "sentence"} }

ProvenanceTags == {"wordnet", "conceptnet", "context", "derivational"}

RankAny ==
    /\ pc = "idle"
    /\ \E weights \in WeightTuples, semantic \in FeatureGrid, context_sim \in FeatureGrid,
          emotion \in FeatureGrid, grammar \in FeatureGrid, frequency \in FeatureGrid,
          sources \in SUBSET ProvenanceTags, inVocab \in BOOLEAN :
          RankOne(weights, semantic, context_sim, emotion, grammar, frequency, sources,
                  inVocab)

InitRank ==
    /\ ProcessStart
    /\ env = HealthyEnv
    /\ artifact_file = AbsentFile
    /\ disable_switch = None

SpecRank == InitRank /\ [][RankAny]_vars

\* ---------------------------------------------------- specification: reranker

SwitchValues == {None, " TRUE ", "0"}

InitRerank ==
    /\ ProcessStart
    /\ env = HealthyEnv
    /\ artifact_file = AbsentFile
    /\ disable_switch \in SwitchValues

Rows == { [word |-> "alpha", score |-> 0],
          [word |-> "beta", score |-> 9000],
          [word |-> " ", score |-> 5000] }

Blends == {0, 74, 150}

MaxResults == { NoMax } \cup { [given |-> TRUE, n |-> n] : n \in {0, 1, -1} }

RerankAny ==
    /\ pc = "idle"
    /\ \E candidates \in SeqsUpTo(Rows, MaxRows), blend \in Blends,
          max_results \in MaxResults :
          Rerank(candidates, blend, max_results)

ReplaceAny == \E kind \in FileKinds \cup {"absent"} : ReplaceArtifact(kind)

NextRerank == RerankAny \/ ReplaceAny \/ Return

SpecRerank == InitRerank /\ [][NextRerank]_vars

\* ----------------------------------------------------- specification: rewrite

RewriteAtoms == {"basically", "moon", "rose", "bright"}

SuggestionLists == { <<>>, <<"brilliant">> }

RewriteAny ==
    /\ pc = "idle"
    /\ \E sentence \in Texts(RewriteAtoms, MaxLen), context \in {"horror"}, mode \in Modes,
          suggestions \in SuggestionLists :
          Rewrite(sentence, context, mode, suggestions)

InitRewrite ==
    /\ ProcessStart
    /\ env \in { [HealthyEnv EXCEPT !.spacy = sp, !.wn = wn] : sp \in BOOLEAN,
                                                              wn \in BOOLEAN }
    /\ artifact_file = AbsentFile
    /\ disable_switch = None

SpecRewrite == InitRewrite /\ [][RewriteAny]_vars

\* ---------------------------------------------------- specification: variants
\* Calls of rewrite_service.rewrite_variants for every number of variants
\* asked for, beside rewrite_sentence for the same arguments.

VariantCounts == 1..3

VariantSuggestions == { <<>>, <<"brilliant">>, <<"brilliant", "bright">> }

VariantAtoms == {"basically", "moon", "bright"}

\* short sentences, and longer ones that are complete
VariantSentences ==
    Texts(VariantAtoms, 2)
    \cup { [w |-> w, dot |-> d] :
             w \in { <<"moon", "moon", "bright", "basically">>,
                      <<"moon", "rose", "bright", "bright">>,
                      <<"bright", "moon", "rose", "basically">> },
             d \in BOOLEAN }

\* One call of rewrite_service.rewrite_variants.
RewriteVariants(sentence, mode, blank_present, allow_rewrite, suggestions, max_variants) ==
    /\ pc = "idle"
    /\ req' = [op |-> "rewrite_variants", sentence |-> sentence, context |-> "horror",
               mode |-> mode, blank_present |-> blank_present,
               allow_rewrite |-> allow_rewrite, suggestions |-> suggestions,
               max_variants |-> max_variants]
    /\ resp' = [rewrites |-> rewrite_variants(env.spacy, env.wn, sentence, "horror", mode,
                                              blank_present, allow_rewrite, suggestions,
                                              max_variants)]
    /\ pc' = "done"
    /\ UNCHANGED << threads, EngineGlobals, env, RerankerGlobals, artifact_file, disable_switch >>

VariantsAny ==
    \E sentence \in VariantSentences, mode \in Modes, blank_present \in BOOLEAN,
       allow_rewrite \in BOOLEAN, suggestions \in VariantSuggestions,
       max_variants \in VariantCounts :
       RewriteVariants(sentence, mode, blank_present, allow_rewrite, suggestions, max_variants)

NextVariants == VariantsAny \/ Return

SpecVariants == InitRewrite /\ [][NextVariants]_vars

\* ------------------------------------------------ specification: explanation
\* Calls of explanation.generate_explanation over every combination of its
\* arguments.

\* One call of explanation.generate_explanation.
Explain(context, words, mode, blank_present, selection_present, intent) ==
    /\ pc = "idle"
    /\ req' = [op |-> "explain", context |-> context, words |-> words, mode |-> mode,
               blank_present |-> blank_present, selection_present |-> selection_present,
               intent |-> intent]
    /\ resp' = [explanation |-> generate_explanation(context, words, mode, blank_present,
                                                     selection_present, intent)]
    /\ pc' = "done"
    /\ UNCHANGED << threads, EngineGlobals, env, RerankerGlobals, artifact_file, disable_switch >>

ExplainContexts == {"horror", "nostalgia", "unknown"}

ExplainWords == { <<>>, <<"dark">>, <<"dark", "creepy">> }

Intents == {"sentence", "blank", "selection"}

ExplainAny ==
    \E context \in ExplainContexts, words \in ExplainWords, mode \in Modes,
       blank_present \in BOOLEAN, selection_present \in BOOLEAN, intent \in Intents :
       Explain(context, words, mode, blank_present, selection_present, intent)

NextExplain == ExplainAny \/ Return

SpecExplain == InitRewrite /\ [][NextExplain]_vars

\* ----------------------------------------------- specification: preprocessing
\* Calls of blank_detector.preprocess_text over texts that hold every marker
\* spelling and the placeholder word.

\* One call of blank_detector.preprocess_text.
Preprocess(text) ==
    /\ pc = "idle"
    /\ req' = [op |-> "preprocess_text", text |-> text]
    /\ resp' = preprocess_text(text)
    /\ pc' = "done"
    /\ UNCHANGED << threads, EngineGlobals, env, RerankerGlobals, artifact_file, disable_switch >>

PreprocessAtoms == {"The", "walked", "____", "...", "(blank)", "BLANKTOKEN"}

PreprocessAny == \E text \in Texts(PreprocessAtoms, MaxLen) : Preprocess(text)

NextPreprocess == PreprocessAny \/ Return

SpecPreprocess == InitRewrite /\ [][NextPreprocess]_vars

\* ------------------------------------------- specification: related words
\* Lookups of related words while the service comes and goes.

RelatedTermSet == {"walk", "happy", "moon"}

RelatedAny == \E term \in RelatedTermSet : Related(term)

NextRelated == RelatedAny \/ Return \/ EnvChange

SpecRelated == Init /\ [][NextRelated]_vars

\* ------------------------------------------ specification: constraint matches
\* Calls of get_constraint_matches in a process that has not initialized the
\* engine, under every availability of the dictionaries.

\* One call of constraints_service.get_constraint_matches.
Constraints(rhyme_with, relation, meaning_of, context, limit, hash_order) ==
    /\ pc = "idle"
    /\ req' = [op |-> "constraints", rhyme_with |-> rhyme_with, relation |-> relation,
               meaning_of |-> meaning_of, context |-> context, limit |-> limit]
    /\ resp' = IF ConstraintsRaise(env, rhyme_with, relation, meaning_of, context, hash_order)
               THEN Raised("encoder")
               ELSE Returned(get_constraint_matches(env, _context_centroids, rhyme_with,
                                 relation, meaning_of, context, limit, hash_order))
    /\ pc' = "done"
    /\ UNCHANGED << threads, EngineGlobals, env, RerankerGlobals, artifact_file, disable_switch >>

ConstraintEnvs ==
    { [spacy |-> TRUE, wn |-> wn, net |-> "up", contexts_file |-> f, encoder |-> enc,
       nrc |-> "present", pronouncing |-> pron] :
      wn \in BOOLEAN, pron \in BOOLEAN, f \in {"full", "missing"}, enc \in {"ok", "raises"} }

RhymeInputs == {"sad", "glad", "Night", "day", "moon", ""}

MeaningInputs == {"happy", "bright", "moon", ""}

Relations == {"synonym", "antonym"}

LimitInputs == {0, -1, 2}

InitConstraints ==
    /\ ProcessStart
    /\ env \in ConstraintEnvs
    /\ artifact_file = AbsentFile
    /\ disable_switch = None

ConstraintsAny ==
    \E rhyme_with \in RhymeInputs, relation \in Relations, meaning_of \in MeaningInputs,
       context \in {None, "horror"}, limit \in LimitInputs, hash_order \in HashOrders :
       Constraints(rhyme_with, relation, meaning_of, context, limit, hash_order)

NextConstraints == ConstraintsAny \/ Return

SpecConstraints == InitConstraints /\ [][NextConstraints]_vars

\* --------------------------------------- specification: overlapping loads
\* Calls of rerank_candidate_dicts that overlap, with the switch unset and a
\* non-empty candidate list, followed statement by statement through
\* _load_artifact, while the artifact file is rewritten.  Each write gives the
\* file a later modification time; the file is not removed.

\* Threads calling at the same time.
Callers == 2

\* Writes of the artifact file.
MaxVersions == 2

ThreadIds == 1..Callers

\* A thread outside rerank_candidate_dicts.  started: the file's modification
\* time when the call began; mtime, payload: the locals of _load_artifact;
\* out: what _load_artifact handed to the caller.
IdleCaller ==
    [pc |-> "idle", started |-> NoMtime, mtime |-> NoMtime, payload |-> NoArtifact,
     out |-> NoResponse]

\* The positions inside `with _CACHE_LOCK:`
LockedPositions ==
    {"check", "read", "store_artifact", "store_mtime", "clear_artifact", "clear_mtime"}

\* _CACHE_LOCK is not held
LockFree == \A t \in DOMAIN threads : threads[t].pc \notin LockedPositions

At(t, position) == threads[t].pc = position

\* The thread moves on with some of its locals changed.
Goes(t, next) == threads' = [threads EXCEPT ![t] = next]

LoaderFrame == << EngineGlobals, env, disable_switch, pc, req, resp >>

\* rerank_candidate_dicts is called and reaches _load_artifact.
CallLoad(t) ==
    /\ At(t, "idle")
    /\ Goes(t, [IdleCaller EXCEPT !.pc = "exists", !.started = artifact_file.mtime])
    /\ UNCHANGED << LoaderFrame, RerankerGlobals, artifact_file >>

\* if not artifact_path.exists(): return None
Exists(t) ==
    /\ At(t, "exists")
    /\ Goes(t, IF artifact_file.kind = "absent"
               THEN [threads[t] EXCEPT !.pc = "done", !.out = Returned(NoArtifact)]
               ELSE [threads[t] EXCEPT !.pc = "stat"])
    /\ UNCHANGED << LoaderFrame, RerankerGlobals, artifact_file >>

\* mtime = artifact_path.stat().st_mtime
Stat(t) ==
    /\ At(t, "stat")
    /\ Goes(t, [threads[t] EXCEPT !.pc = "acquire", !.mtime = artifact_file.mtime])
    /\ UNCHANGED << LoaderFrame, RerankerGlobals, artifact_file >>

\* Entering the with block without waiting for the lock
AcquireUnlocked(t) ==
    /\ At(t, "acquire")
    /\ Goes(t, [threads[t] EXCEPT !.pc = "check"])
    /\ UNCHANGED << LoaderFrame, RerankerGlobals, artifact_file >>

\* with _CACHE_LOCK: the thread waits until the lock is free
Acquire(t) ==
    /\ At(t, "acquire")
    /\ LockFree
    /\ Goes(t, [threads[t] EXCEPT !.pc = "check"])
    /\ UNCHANGED << LoaderFrame, RerankerGlobals, artifact_file >>

\* if _CACHED_ARTIFACT is not None and _CACHED_MTIME == mtime: return it
Check(t) ==
    /\ At(t, "check")
    /\ Goes(t, IF CacheHit([mtime |-> _CACHED_MTIME, artifact |-> _CACHED_ARTIFACT],
                           threads[t].mtime)
               THEN [threads[t] EXCEPT !.pc = "done", !.out = Returned(_CACHED_ARTIFACT)]
               ELSE [threads[t] EXCEPT !.pc = "read"])
    /\ UNCHANGED << LoaderFrame, RerankerGlobals, artifact_file >>

\* The try block and the test of the two keys: the file as it is now is read.
\* A payload on which `in` is not defined raises out of the with block.
Read(t) ==
    /\ At(t, "read")
    /\ Goes(t, IF artifact_file.kind \in UnpicklableKinds
                  \/ (artifact_file.kind # "number" /\ LacksKeys(PayloadOf(artifact_file)))
               THEN [threads[t] EXCEPT !.pc = "clear_artifact"]
               ELSE IF artifact_file.kind = "number"
               THEN [threads[t] EXCEPT !.pc = "done", !.out = Raised("TypeError")]
               ELSE [threads[t] EXCEPT !.pc = "store_artifact",
                                       !.payload = PayloadOf(artifact_file)])
    /\ UNCHANGED << LoaderFrame, RerankerGlobals, artifact_file >>

\* _CACHED_ARTIFACT = None
ClearArtifact(t) ==
    /\ At(t, "clear_artifact")
    /\ _CACHED_ARTIFACT' = NoArtifact
    /\ Goes(t, [threads[t] EXCEPT !.pc = "clear_mtime"])
    /\ UNCHANGED << LoaderFrame, _CACHED_MTIME, artifact_file >>

\* _CACHED_MTIME = None; return None
ClearMtime(t) ==
    /\ At(t, "clear_mtime")
    /\ _CACHED_MTIME' = NoMtime
    /\ Goes(t, [threads[t] EXCEPT !.pc = "done", !.out = Returned(NoArtifact)])
    /\ UNCHANGED << LoaderFrame, _CACHED_ARTIFACT, artifact_file >>

\* _CACHED_ARTIFACT = payload
StoreArtifact(t) ==
    /\ At(t, "store_artifact")
    /\ _CACHED_ARTIFACT' = threads[t].payload
    /\ Goes(t, [threads[t] EXCEPT !.pc = "store_mtime"])
    /\ UNCHANGED << LoaderFrame, _CACHED_MTIME, artifact_file >>

\* _CACHED_MTIME = mtime; return _CACHED_ARTIFACT
StoreMtime(t) ==
    /\ At(t, "store_mtime")
    /\ _CACHED_MTIME' = threads[t].mtime
    /\ Goes(t, [threads[t] EXCEPT !.pc = "done", !.out = Returned(_CACHED_ARTIFACT)])
    /\ UNCHANGED << LoaderFrame, _CACHED_ARTIFACT, artifact_file >>

\* The call scores with what it was handed and returns.
Finish(t) ==
    /\ At(t, "done")
    /\ Goes(t, IdleCaller)
    /\ UNCHANGED << LoaderFrame, RerankerGlobals, artifact_file >>

\* The artifact file is replaced by a new one with a later modification time.
WriteArtifact(kind) ==
    /\ artifact_file.mtime < MaxVersions
    /\ artifact_file' = [kind |-> kind, mtime |-> artifact_file.mtime + 1]
    /\ UNCHANGED << LoaderFrame, RerankerGlobals, threads >>

\* What a write may put in the file
WrittenKinds == {"no_keys", "number", "labels"}

InitLoader ==
    /\ Imported
    /\ pc = "idle"
    /\ req = NoRequest
    /\ resp = NoResponse
    /\ threads = [t \in ThreadIds |-> IdleCaller]
    /\ env = HealthyEnv
    /\ artifact_file = AbsentFile
    /\ disable_switch = None

LoaderStep(t) ==
    \/ CallLoad(t) \/ Exists(t) \/ Stat(t) \/ Acquire(t) \/ Check(t) \/ Read(t)
    \/ ClearArtifact(t) \/ ClearMtime(t) \/ StoreArtifact(t) \/ StoreMtime(t) \/ Finish(t)

WriteAny == \E kind \in WrittenKinds : WriteArtifact(kind)

NextLoader == (\E t \in ThreadIds : LoaderStep(t)) \/ WriteAny

SpecLoader == InitLoader /\ [][NextLoader]_vars

\* ------------------------------------ specification: overlapping first use
\* Calls of generate_suggestions that overlap in a fresh process, followed
\* statement by statement through initialize() and
\* ensure_context_embeddings up to the test of _INITIALIZED.  No lock is
\* taken anywhere on this path.

\* A thread outside generate_suggestions.  todo: the contexts whose centroid
\* the thread has still to store; seen: the centroid cache at the moment the
\* thread passed the test of _INITIALIZED; out: how the test went.
IdleRequest == [pc |-> "idle", todo |-> {}, seen |-> {}, out |-> "none"]

InitFrame == << _related_cache, env, RerankerGlobals, artifact_file, disable_switch,
                pc, req, resp >>

\* generate_suggestions is called: initialize() tests the two flags.
EnterInitialize(t) ==
    /\ At(t, "idle")
    /\ Goes(t, IF _INITIALIZED \/ _INITIALIZATION_ERROR # None
               THEN [IdleRequest EXCEPT !.pc = "test"]
               ELSE [IdleRequest EXCEPT !.pc = "load_contexts"])
    /\ UNCHANGED << InitFrame, _CONTEXTS, _INITIALIZED, _INITIALIZATION_ERROR,
                    _context_centroids, _LOADED, loads >>

\* _CONTEXTS = load_contexts(), or the except clause
LoadContexts(t) ==
    /\ At(t, "load_contexts")
    /\ loads' = [loads EXCEPT !.contexts = @ + 1]
    /\ IF env.contexts_file \in BadContextFiles
       THEN /\ _INITIALIZATION_ERROR' = "load_contexts"
            /\ Goes(t, [threads[t] EXCEPT !.pc = "test"])
            /\ UNCHANGED _CONTEXTS
       ELSE /\ _CONTEXTS' = env.contexts_file
            /\ Goes(t, [threads[t] EXCEPT !.pc = "ensure"])
            /\ UNCHANGED _INITIALIZATION_ERROR
    /\ UNCHANGED << InitFrame, _INITIALIZED, _context_centroids, _LOADED >>

\* ensure_context_embeddings up to the loop over the contexts: the early
\* return on a cache that is not empty, else the words are encoded.
EnsureEmbeddings(t) ==
    /\ At(t, "ensure")
    /\ IF _context_centroids # {}
       THEN /\ Goes(t, [threads[t] EXCEPT !.pc = "load_lexicon"])
            /\ UNCHANGED << _INITIALIZATION_ERROR, loads >>
       ELSE /\ loads' = [loads EXCEPT !.embeddings = @ + 1]
            /\ IF env.encoder = "raises"
               THEN /\ _INITIALIZATION_ERROR' = "ensure_context_embeddings"
                    /\ Goes(t, [threads[t] EXCEPT !.pc = "test"])
               ELSE /\ Goes(t, [threads[t] EXCEPT
                                   !.pc = "centroids",
                                   !.todo = DOMAIN ContextsOf(_CONTEXTS)])
                    /\ UNCHANGED _INITIALIZATION_ERROR
    /\ UNCHANGED << InitFrame, _CONTEXTS, _INITIALIZED, _context_centroids, _LOADED >>

\* One round of the loop `for name, payload in contexts.items()`: the
\* centroid of the next context is stored.
StoreCentroid(t) ==
    /\ At(t, "centroids")
    /\ \E name \in threads[t].todo :
          /\ _context_centroids' = _context_centroids \cup {name}
          /\ Goes(t, [threads[t] EXCEPT
                         !.todo = @ \ {name},
                         !.pc = IF threads[t].todo = {name} THEN "load_lexicon"
                                ELSE "centroids"])
    /\ UNCHANGED << InitFrame, _CONTEXTS, _INITIALIZED, _INITIALIZATION_ERROR,
                    _LOADED, loads >>

\* load_lexicon(), or the except clause
LoadLexicon(t) ==
    /\ At(t, "load_lexicon")
    /\ IF _LOADED
       THEN /\ Goes(t, [threads[t] EXCEPT !.pc = "set_initialized"])
            /\ UNCHANGED << _INITIALIZATION_ERROR, _LOADED, loads >>
       ELSE /\ loads' = [loads EXCEPT !.lexicon = @ + 1]
            /\ IF env.nrc = "raises"
               THEN /\ _INITIALIZATION_ERROR' = "load_lexicon"
                    /\ Goes(t, [threads[t] EXCEPT !.pc = "test"])
                    /\ UNCHANGED _LOADED
               ELSE /\ _LOADED' = TRUE
                    /\ Goes(t, [threads[t] EXCEPT !.pc = "set_initialized"])
                    /\ UNCHANGED _INITIALIZATION_ERROR
    /\ UNCHANGED << InitFrame, _CONTEXTS, _INITIALIZED, _context_centroids >>

\* _INITIALIZED = True
SetInitialized(t) ==
    /\ At(t, "set_initialized")
    /\ _INITIALIZED' = TRUE
    /\ Goes(t, [threads[t] EXCEPT !.pc = "test"])
    /\ UNCHANGED << InitFrame, _CONTEXTS, _INITIALIZATION_ERROR, _context_centroids,
                    _LOADED, loads >>

\* if not _INITIALIZED or _CONTEXTS is None: return _fallback_response(False)
TestInitialized(t) ==
    /\ At(t, "test")
    /\ Goes(t, IF ~_INITIALIZED \/ _CONTEXTS = None
               THEN [threads[t] EXCEPT !.pc = "done", !.out = "fallback"]
               ELSE [threads[t] EXCEPT !.pc = "done", !.out = "passed",
                                       !.seen = _context_centroids])
    /\ UNCHANGED << InitFrame, _CONTEXTS, _INITIALIZED, _INITIALIZATION_ERROR,
                    _context_centroids, _LOADED, loads >>

\* The rest of the request is answered.
FinishRequest(t) ==
    /\ At(t, "done")
    /\ Goes(t, IdleRequest)
    /\ UNCHANGED << InitFrame, _CONTEXTS, _INITIALIZED, _INITIALIZATION_ERROR,
                    _context_centroids, _LOADED, loads >>

InitFirstUse ==
    /\ Imported
    /\ pc = "idle"
    /\ req = NoRequest
    /\ resp = NoResponse
    /\ threads = [t \in ThreadIds |-> IdleRequest]
    /\ env \in Envs
    /\ artifact_file = AbsentFile
    /\ disable_switch = None

FirstUseStep(t) ==
    \/ EnterInitialize(t) \/ LoadContexts(t) \/ EnsureEmbeddings(t) \/ StoreCentroid(t)
    \/ LoadLexicon(t) \/ SetInitialized(t) \/ TestInitialized(t) \/ FinishRequest(t)

NextFirstUse == \E t \in ThreadIds : FirstUseStep(t)

SpecFirstUse == InitFirstUse /\ [][NextFirstUse]_vars

\* ------------------------------------------- specification: strict ranking
\* Calls of ranker.rank_candidates on small pools, with and without the
\* strict filter, with the expected part of speech given or inferred from a
\* blank.

\* One call of ranker.rank_candidates with the default weights.
RankCandidates(cleaned_text, candidates, strict_pos, expected_pos_override) ==
    /\ pc = "idle"
    /\ req' = [op |-> "rank_candidates", cleaned_text |-> cleaned_text,
               candidates |-> candidates, strict_pos |-> strict_pos,
               expected_pos_override |-> expected_pos_override]
    /\ resp' = rank_candidates(Capabilities(env, _related_cache), cleaned_text, "horror",
                               candidates, TRUE, <<>>, _mode_weights("write", "blank"), 5, {},
                               strict_pos, expected_pos_override, {})
    /\ pc' = "done"
    /\ UNCHANGED << threads, EngineGlobals, env, RerankerGlobals, artifact_file, disable_switch >>

\* Texts with a blank: after "to", after a verb, alone
StrictTexts ==
    { preprocess_text([w |-> w, dot |-> FALSE]).cleaned_text :
        w \in {<<"to", "____">>, <<"He", "walked", "____">>, <<"____">>} }

\* A verb and noun, a noun, words of several classes, adverbs, an adjective
\* and a word the lexical database does not know
StrictPool == {"walk", "walker", "fast", "clearly", "happy", "smile"}

ExpectedSets == {NoPos, {"VERB"}, {"ADV"}, {"ADJ", "ADV"}}

InitStrict ==
    /\ ProcessStart
    /\ env \in { [HealthyEnv EXCEPT !.spacy = sp, !.wn = wn] : sp \in BOOLEAN, wn \in BOOLEAN }
    /\ artifact_file = AbsentFile
    /\ disable_switch = None

RankCandidatesAny ==
    \E cleaned_text \in StrictTexts, candidates \in SUBSET StrictPool,
       strict_pos \in BOOLEAN, expected_pos_override \in ExpectedSets :
       RankCandidates(cleaned_text, candidates, strict_pos, expected_pos_override)

NextStrict == RankCandidatesAny \/ Return

SpecStrict == InitStrict /\ [][NextStrict]_vars

\* ------------------------------------------- specification: candidate pool
\* Calls of pipeline.build_pipeline with the vocabulary of each file, the
\* large one included.

\* One call of pipeline.build_pipeline, or the exception that leaves it.
BuildPipeline(text, context_key, mode, file, selection) ==
    /\ pc = "idle"
    /\ req' = [op |-> "build_pipeline", text |-> text, context_key |-> context_key,
               mode |-> mode, file |-> file, selection |-> selection]
    /\ pc' = IF PipelineRaises(Capabilities(env, _related_cache), text, mode, selection)
             THEN "raised" ELSE "done"
    /\ _related_cache' = IF pc' = "raised" THEN _related_cache
                         ELSE CacheAfterPipeline(Capabilities(env, _related_cache),
                                                 text, mode, selection)
    /\ resp' = IF pc' = "raised" THEN NoResponse
               ELSE build_pipeline(Capabilities(env, _related_cache), text, context_key,
                                   mode, ContextsOf(file), selection)
    /\ UNCHANGED << threads, _CONTEXTS, _INITIALIZED, _INITIALIZATION_ERROR,
                    _context_centroids, _LOADED, loads, env, RerankerGlobals,
                    artifact_file, disable_switch >>

PoolFiles == {"full", "odd_words"}

PoolKeys == {"horror", "neutral"}

PoolModes == {"write", "edit"}

PoolTexts == Texts({"He", "walked", "____"}, 2) \cup {[w |-> <<"He", "walked", "____">>, dot |-> TRUE]}

PoolEnvs == { [HealthyEnv EXCEPT !.wn = wn, !.net = net] : wn \in BOOLEAN, net \in NetStates }

InitPool ==
    /\ ProcessStart
    /\ env \in PoolEnvs
    /\ artifact_file = AbsentFile
    /\ disable_switch = None

BuildAny ==
    \E text \in PoolTexts, context_key \in PoolKeys, mode \in PoolModes, file \in PoolFiles,
       selection \in SuggestSelections :
       BuildPipeline(text, context_key, mode, file, selection)

\* the texts tried with the large vocabulary
LargeTexts == {EmptyText, [w |-> <<"He", "walked", "____">>, dot |-> TRUE]}

BuildLarge ==
    \E text \in LargeTexts, mode \in {"write", "edit"} :
       BuildPipeline(text, "horror", mode, "large", NoSelection)

NextPool == BuildAny \/ BuildLarge \/ Return

SpecPool == InitPool /\ [][NextPool]_vars

\* ------------------------------------------- specification: grammatical fit
\* Calls of ranker._grammatical_fit over a pool of words and expected sets,
\* with and without the lexical database.

\* One call of ranker._grammatical_fit.
Fit(word, expected_pos) ==
    /\ pc = "idle"
    /\ req' = [op |-> "fit", word |-> word, expected_pos |-> expected_pos]
    /\ resp' = [fit |-> _grammatical_fit(env.wn, word, expected_pos)]
    /\ pc' = "done"
    /\ UNCHANGED << threads, EngineGlobals, env, RerankerGlobals, artifact_file, disable_switch >>

FitWords ==
    {"walk", "walked", "walker", "fast", "quick", "clearly", "darkly", "happy", "very",
     "explore", "space", "smile", "moon"}

FitExpected == {NoPos} \cup (SUBSET ContentPos \ {{}})

FitAny == \E word \in FitWords, expected_pos \in FitExpected : Fit(word, expected_pos)

NextFit == FitAny \/ Return

SpecFit == InitStrict /\ [][NextFit]_vars

\* ------------------------------------------------- properties: suggestions

\* The input text holds a blank marker.
HasMarker(text) == \E i \in 1..Len(text.w) : text.w[i] \in MarkerSpellings

SuggestDone == pc = "done" /\ req.op = "suggest"

\* C1: a response to a text with a blank marker, and every response whose
\* detected_blank is true, has no rewrites and the empty rewrite, whatever the
\* mode, the trigger, the context and the selection.
C1_BlankGivesNoRewrite ==
    (SuggestDone /\ (resp.detected_blank \/ HasMarker(req.text)))
        => (resp.rewrites = <<>> /\ resp.rewrite = EmptyText)

\* A blank in a text that is otherwise long enough and punctuated, answered
\* with suggestions in mode write.
C1_Witness ==
    /\ SuggestDone
    /\ resp.detected_blank
    /\ HasMarker(req.text)
    /\ Len(req.text.w) >= 4
    /\ req.text.dot
    /\ req.mode = "write"
    /\ resp.suggestions # <<>>
    /\ resp.rewrites = <<>>

\* A request in mode write or edit for a complete text without a blank marker.
CompleteNoBlank ==
    /\ SuggestDone
    /\ ~HasMarker(req.text)
    /\ is_sentence_complete(env.spacy, req.text, FALSE)
    /\ ModeKey(req.mode) \in {"write", "edit"}

\* A non-empty rewrite that is the first of the rewrites.
PrimaryRewrite ==
    /\ resp.rewrite # EmptyText
    /\ resp.rewrites # <<>>
    /\ resp.rewrite = resp.rewrites[1]

\* The candidate pool build_pipeline gathers for the request.
PoolOfRequest ==
    build_pipeline(Capabilities(env, _related_cache), req.text,
                   _resolve_context_key(req.context, ContextsOf(_CONTEXTS)),
                   ModeKey(req.mode), ContextsOf(_CONTEXTS), req.selection).candidates

DecisionOfRequest == detect_intent(env.spacy, env.wn, req.text, req.selection)

\* C4: when the slot has a single expected part of speech, every suggestion is
\* tagged with it; so an adverb slot's non-empty suggestions have an ADV among
\* the top 3 and an adjective selection's top suggestion is an ADJ.
C4_SinglePosSlot ==
    (SuggestDone /\ Cardinality(DecisionOfRequest.expected_pos) = 1)
        => /\ \A i \in 1..Len(resp.suggestions) :
                 resp.suggestions[i].pos \in DecisionOfRequest.expected_pos
           /\ (/\ DecisionOfRequest.intent = "blank"
               /\ DecisionOfRequest.expected_pos = {"ADV"}
               /\ resp.suggestions # <<>>)
                 => \E i \in 1..Min2(3, Len(resp.suggestions)) :
                       resp.suggestions[i].pos = "ADV"
           /\ (/\ DecisionOfRequest.intent = "selection"
               /\ DecisionOfRequest.expected_pos = {"ADJ"}
               /\ resp.suggestions # <<>>)
                 => resp.suggestions[1].pos = "ADJ"

\* A blank right after a verb, answered with adverbs.
C4_Witness ==
    /\ SuggestDone
    /\ req.selection = NoSelection
    /\ \E i \in 2..Len(req.text.w) :
          req.text.w[i] \in MarkerSpellings /\ req.text.w[i - 1] = "walked"
    /\ DecisionOfRequest.expected_pos = {"ADV"}
    /\ Len(resp.suggestions) >= 2
    /\ resp.suggestions[1].pos = "ADV"

\* --------------------------------------------------- properties: lifecycle

\* C9: once initialize() has failed, the failure stays, the shared resources
\* are not loaded again and every later request gets the fallback response.
C9_FailureIsSticky ==
    [][_INITIALIZATION_ERROR # None
          => /\ _INITIALIZATION_ERROR' = _INITIALIZATION_ERROR
             /\ ~_INITIALIZED'
             /\ loads' = loads
             /\ (pc' = "done" => resp' = _fallback_response(FALSE))]_vars

\* A request answered with the fallback after the failure, in an environment
\* that has become healthy again.
C9_Witness ==
    /\ _INITIALIZATION_ERROR # None
    /\ env = HealthyEnv
    /\ SuggestDone
    /\ resp = _fallback_response(FALSE)
    /\ loads.contexts = 1

\* ------------------------------------------------------ properties: intent

\* The selection holds text besides whitespace.
SelectionHasText(selection) ==
    selection.given /\ \E i \in 1..Len(selection.text) : selection.text[i] # " "

IntentDone == pc = "done" /\ req.op = "detect_intent"

\* C10: the intent is selection whenever the selection has non-empty trimmed
\* text, else blank whenever the text holds a blank marker, else sentence.
C10_IntentPriority ==
    IntentDone
        => resp.intent = IF SelectionHasText(req.selection) THEN "selection"
                         ELSE IF HasMarker(req.text) THEN "blank"
                         ELSE "sentence"

\* A selection over a text that holds a blank marker too.
C10_Witness ==
    /\ IntentDone
    /\ SelectionHasText(req.selection)
    /\ HasMarker(req.text)
    /\ resp.intent = "selection"
    /\ resp.blank_present

\* C21: strict_pos is set only when expected_pos is a single part of speech,
\* for the blank intent as for the selection intent.
C21_StrictMeansSinglePos ==
    (IntentDone /\ resp.strict_pos) => Cardinality(resp.expected_pos) = 1

\* The same for the selection intent alone.
C21_StrictSelectionIsSingle ==
    (IntentDone /\ resp.intent = "selection" /\ resp.strict_pos)
        => Cardinality(resp.expected_pos) = 1

\* ----------------------------------------------------- properties: scoring

\* C3: every score rank_candidates gives lies in [0, 0.99].
C3_ScoreInRange ==
    (pc = "done" /\ req.op = "rank") => (resp.score >= 0 /\ resp.score <= 9900)

\* ---------------------------------------------------- properties: reranker

RerankDone == pc = "done" /\ req.op = "rerank"

\* The switch is set to one of the truthy spellings.
SwitchOn ==
    disable_switch # None /\ StripLower(disable_switch) \in {"1", "true", "yes", "on"}

IsPrefix(a, b) == Len(a) <= Len(b) /\ a = SubSeq(b, 1, Len(a))

\* C5: with the switch on, the result is the input rows, unchanged and in
\* their order, cut at max_results when one is given and the whole input list
\* otherwise, whatever the artifact file is.
C5_DisabledIsPassThrough ==
    (RerankDone /\ SwitchOn)
        => /\ ~resp.raised
           /\ IsPrefix(resp.result, req.candidates)
           /\ \A i \in 1..Len(resp.result) : "ml_score" \notin DOMAIN resp.result[i]
           /\ (~req.max_results.given => resp.result = req.candidates)

\* The switch is on while a usable artifact file is there.
C5_Witness ==
    /\ RerankDone
    /\ SwitchOn
    /\ artifact_file.kind = "labels"
    /\ Len(req.candidates) = 2
    /\ ~req.max_results.given
    /\ resp = Returned(req.candidates)

\* The call blended the candidates with the learned scores of a model.
ModelUsed ==
    /\ RerankDone
    /\ ~SwitchOn
    /\ artifact_file.kind \notin {"absent", "number"}
    /\ _CACHED_ARTIFACT.kind \in {"labels", "signed"}
    /\ ActiveRows(req.candidates) # <<>>

\* C6 as stated: a row with a strictly higher learned score comes before a
\* row with a lower one, whatever the original scores and the blend.
C6_HigherLearnedScoreFirst ==
    ModelUsed
        => /\ ~resp.raised
           /\ \A i, j \in 1..Len(resp.result) :
                 i < j => resp.result[j].ml_score <= resp.result[i].ml_score

\* C6, amended: the output rows carry ml_score and come in descending order
\* of the blended score, so a row comes before every row whose blended score
\* is strictly lower; with a blend factor of 1 or more that is the descending
\* order of the learned score.
C6_HigherBlendedScoreFirst ==
    ModelUsed
        => /\ ~resp.raised
           /\ resp.result # <<>>
           /\ \A i \in 1..Len(resp.result) : "ml_score" \in DOMAIN resp.result[i]
           /\ \A i, j \in 1..Len(resp.result) :
                 i < j => resp.result[j].score <= resp.result[i].score
           /\ req.blend >= 100
                 => \A i, j \in 1..Len(resp.result) :
                       i < j => resp.result[j].ml_score <= resp.result[i].ml_score

\* The row the model scores higher is moved ahead of the row before it.
C6_Witness ==
    /\ ModelUsed
    /\ Len(req.candidates) = 2
    /\ req.candidates[1].word = "beta"
    /\ Len(resp.result) = 2
    /\ resp.result[1].word = "alpha"
    /\ resp.result[1].ml_score > resp.result[2].ml_score
    /\ resp.result[1].score > resp.result[2].score

\* The score an output row had in the input: the rows of a given word carry
\* one score.
OriginalScore(row) ==
    req.candidates[CHOOSE i \in 1..Len(req.candidates) : req.candidates[i].word = row.word].score

\* The expected label under the cached model over its highest label, within
\* [0, 1], in 1/10000
LearnedScore(row) ==
    Clamp(RawScore(_CACHED_ARTIFACT, row.word) \div SetMax(ClassesOf(_CACHED_ARTIFACT)),
          0, 10000)

\* blend clamped into [0, 1], in 1/100
SafeBlend == Clamp(req.blend, 0, 100)

\* C19: with the model in use, each output score is blend * learned +
\* (1 - blend) * original rounded to four decimals, blend being the requested
\* factor clamped into [0, 1] and learned the expected label over the highest
\* label clamped into [0, 1]; so the output score lies between the original
\* and the learned score, is the original score for a blend of 0 and the
\* learned score for a blend of 1 or more.
C19_BlendBetweenScores ==
    ModelUsed
        => /\ ~resp.raised
           /\ \A i \in 1..Len(resp.result) :
                 /\ resp.result[i].ml_score = LearnedScore(resp.result[i])
                 /\ 100 * resp.result[i].score
                        = SafeBlend * LearnedScore(resp.result[i])
                          + (100 - SafeBlend) * OriginalScore(resp.result[i])
                 /\ resp.result[i].score >= Min2(OriginalScore(resp.result[i]),
                                                 LearnedScore(resp.result[i]))
                 /\ resp.result[i].score <= Max2(OriginalScore(resp.result[i]),
                                                 LearnedScore(resp.result[i]))
                 /\ (req.blend = 0 => resp.result[i].score = OriginalScore(resp.result[i]))
                 /\ (req.blend >= 100 => resp.result[i].score = LearnedScore(resp.result[i]))

\* A blend strictly inside (0, 1) of two different scores.
C19_Witness ==
    /\ ModelUsed
    /\ req.blend = 74
    /\ \E i \in 1..Len(resp.result) :
          /\ OriginalScore(resp.result[i]) > resp.result[i].score
          /\ resp.result[i].score > LearnedScore(resp.result[i])

\* C7: rerank_candidate_dicts never raises, whatever the artifact file is.
C7_NeverRaises == RerankDone => ~resp.raised

\* ----------------------------------------------------- properties: rewrite

\* The drift of a rewrite from the input sentence, in 1/10000: one minus the
\* share of the input's content terms that the rewrite keeps.
DriftFromInput(spacy, original, rewritten) ==
    IF _extract_content_terms(spacy, original.w, 10) = <<>> THEN 0
    ELSE 10000 - (10000 * Cardinality(Range(_extract_content_terms(spacy, original.w, 10))
                                      \cap Range(_extract_content_terms(spacy, rewritten.w,
                                                                        10))))
                    \div Cardinality(Range(_extract_content_terms(spacy, original.w, 10)))

\* C8: every rewrite and every variant drifts from the input sentence by at
\* most 0.52.
C8_DriftWithinBudget ==
    (pc = "done" /\ req.op = "rewrite")
        => /\ resp.rewrite # EmptyText
                 => DriftFromInput(env.spacy, req.sentence, resp.rewrite) <= DriftBudget
           /\ \A i \in 1..Len(resp.rewrites) :
                 DriftFromInput(env.spacy, req.sentence, resp.rewrites[i]) <= DriftBudget

\* ------------------------------------------------ properties: rewrite gate

\* C11: rewrites is non-empty only for a complete text without a blank marker
\* in mode write or edit, or in mode rewrite with the button trigger; mode
\* rewrite with the auto trigger never gives a rewrite.
C11_RewritesOnlyWhenAllowed ==
    (SuggestDone /\ resp.rewrites # <<>>)
        => /\ ~HasMarker(req.text)
           /\ ~resp.detected_blank
           /\ is_sentence_complete(env.spacy, req.text, FALSE)
           /\ \/ ModeKey(req.mode) \in {"write", "edit"}
              \/ ModeKey(req.mode) = "rewrite" /\ req.trigger = "button"

\* Mode rewrite with the button trigger gives rewrites for a complete text.
C11_Witness ==
    /\ SuggestDone
    /\ ModeKey(req.mode) = "rewrite"
    /\ req.trigger = "button"
    /\ resp.rewrites # <<>>
    /\ resp.rewrite = resp.rewrites[1]

\* ---------------------------------------------------- properties: fallback

\* A call of generate_suggestions has ended, with a response or an exception.
SuggestEnded == pc \in {"done", "raised"} /\ req.op = "suggest"

\* The call belongs to the fallback cases that can be told from its input:
\* initialization failed, or the cleaned text is empty.
FallbackInput ==
    \/ _INITIALIZATION_ERROR # None
    \/ IsEmptyText(preprocess_text(req.text).cleaned_text)

\* C12: generate_suggestions never raises and returns the fallback response
\* whenever initialization failed, the cleaned text is empty or the candidate
\* pool is empty; an unrecognized context key is resolved to a loaded one.
C12_FallbackNeverRaises ==
    SuggestEnded
        => /\ FallbackInput
                 => pc = "done" /\ resp = _fallback_response(FALSE)
           /\ (pc = "done" /\ ~FallbackInput /\ PoolOfRequest = {})
                 => resp = _fallback_response(HasMarker(req.text))
           /\ _INITIALIZED
                 => _resolve_context_key(req.context, ContextsOf(_CONTEXTS))
                       \in DOMAIN ContextsOf(_CONTEXTS)

\* ----------------------------------------------- properties: related words

\* A call of get_related_words has ended whose body ran.
RelatedLookedUp == pc = "done" /\ req.op = "related" /\ ~req.hit

\* C13: get_related_words returns the empty list and raises nothing when the
\* request times out, fails at the network level, is answered with a status
\* other than 200 or with a body of an unexpected JSON shape.
C13_FailedLookupGivesEmpty ==
    (RelatedLookedUp /\ env.net # "up") => resp = Returned(<<>>)


\* ------------------------------------------- properties: constraint matches

ConstraintsReturned == pc = "done" /\ req.op = "constraints" /\ ~resp.raised

\* The candidates the call gathers for its request
RhymesOfRequest == Range(_collect_rhymes(env.pronouncing, _clean_word(req.rhyme_with)))

MeaningsOfRequest == _collect_meaning(env.wn, _clean_word(req.meaning_of), req.relation)

ResultRows == resp.result.results

\* C14: when no candidate is both a rhyme and in the meaning relation but
\* some rhyme or meaning candidate exists, the results are not empty and the
\* note is a best-effort note, not null; when some candidate is both, every
\* returned row is such a candidate, the results are not empty and the note
\* is null.
C14_BestEffortOrExact ==
    ConstraintsReturned =>
        /\ (RhymesOfRequest \cap MeaningsOfRequest = {}
            /\ RhymesOfRequest \cup MeaningsOfRequest # {})
           => /\ ResultRows # <<>>
              /\ resp.result.note \in {NoOverlapNote, NoRhymeNote}
        /\ (RhymesOfRequest \cap MeaningsOfRequest # {})
           => /\ ResultRows # <<>>
              /\ \A i \in 1..Len(ResultRows) :
                    /\ ResultRows[i].word \in RhymesOfRequest \cap MeaningsOfRequest
                    /\ ResultRows[i].rhyme /\ ResultRows[i].relation_match
              /\ resp.result.note = None

\* A best-effort answer that mixes rhymes and meaning candidates.
C14_Witness ==
    /\ ConstraintsReturned
    /\ RhymesOfRequest # {} /\ MeaningsOfRequest # {}
    /\ RhymesOfRequest \cap MeaningsOfRequest = {}
    /\ resp.result.note = NoOverlapNote
    /\ Len(ResultRows) = 2

\* An exact answer chosen among more gathered candidates.
C14_WitnessExact ==
    /\ ConstraintsReturned
    /\ RhymesOfRequest \cap MeaningsOfRequest # {}
    /\ RhymesOfRequest \cup MeaningsOfRequest # RhymesOfRequest \cap MeaningsOfRequest
    /\ Len(ResultRows) = 1
    /\ resp.result.note = None


\* ------------------------------------------------ properties: artifact cache

\* C15: the artifact file is read and unpickled at most once between two
\* writes of it, whatever it contains, however many calls are made.
C15_OneLoadPerVersion == loads.artifact <= 1

\* The same for a file that holds a mapping with both entries.
C15_OneLoadOfValidFile ==
    (artifact_file.kind \in MappingKinds \ {"no_keys"}) => loads.artifact <= 1


\* -------------------------------------------- properties: overlapping loads

\* _load_artifact has returned to thread t, and what it returned
HasReturned(t) == threads[t].pc = "done" /\ ~threads[t].out.raised

HandedTo(t) == threads[t].out.result

\* The cache is between the assignment of _CACHED_ARTIFACT and that of
\* _CACHED_MTIME in some thread other than t.
HalfUpdatedBeside(t) ==
    \E u \in ThreadIds \ {t} : threads[u].pc \in {"store_mtime", "clear_mtime"}

\* C16: however the calls and the writes of the file interleave, what
\* _load_artifact hands to a caller is None or a whole payload read from one
\* version of the file that holds both `vectorizer` and `model`; at most one
\* thread is inside the locked block, so no thread looks at the cache, reads
\* the file or assigns the cache while another is between the two cache
\* assignments.
C16_WholePayloadUnderLock ==
    \A t \in ThreadIds :
        /\ HasReturned(t)
              => \/ HandedTo(t) = NoArtifact
                 \/ /\ ~LacksKeys(HandedTo(t))
                    /\ HandedTo(t).kind \in WrittenKinds \ UnpicklableKinds
                    /\ HandedTo(t).version \in 1..artifact_file.mtime
        /\ threads[t].pc \in LockedPositions => ~HalfUpdatedBeside(t)
        /\ threads[t].pc \in LockedPositions
              => \A u \in ThreadIds \ {t} : threads[u].pc \notin LockedPositions

\* A thread waits for the lock while another is between the two assignments.
C16_Witness ==
    \E t \in ThreadIds :
        /\ threads[t].pc = "acquire"
        /\ \E u \in ThreadIds \ {t} :
              /\ threads[u].pc = "store_mtime"
              /\ _CACHED_ARTIFACT = threads[u].payload
              /\ _CACHED_MTIME # threads[u].mtime

\* C17: a call that began after a write of the artifact file was complete is
\* never handed an artifact loaded from an older version of the file,
\* whatever other calls, with a modification time read before the write, do
\* in between.
C17_NeverOlderThanStart ==
    \A t \in ThreadIds :
        (HasReturned(t) /\ HandedTo(t) # NoArtifact)
            => HandedTo(t).version >= threads[t].started

\* A call begun after the second write is handed the second version while
\* the other thread still carries the modification time of the first.
C17_Witness ==
    \E t \in ThreadIds :
        /\ threads[t].pc = "done"
        /\ threads[t].started = 2
        /\ threads[t].out = Returned(PayloadOf(artifact_file))
        /\ \E u \in ThreadIds \ {t} :
              threads[u].mtime = 1 /\ threads[u].pc \in {"acquire", "check", "read"}


\* ------------------------------------------- properties: overlapping first use

\* C18: when calls overlap on first use, a request that passes the test of
\* _INITIALIZED finds a centroid for every loaded context, as after one
\* initialization run alone.
C18_PassedSeesAllCentroids ==
    \A t \in ThreadIds :
        (threads[t].pc = "done" /\ threads[t].out = "passed")
            => threads[t].seen = ensure_context_embeddings({}, ContextsOf(_CONTEXTS))


\* ------------------------------------------------ properties: strict ranking

RankCandidatesDone == pc = "done" /\ req.op = "rank_candidates"

\* The expected part of speech rank_candidates works with
ExpectedOfRequest ==
    IF req.expected_pos_override = NoPos
    THEN infer_expected_pos(env.spacy, PosText(req.cleaned_text))
    ELSE req.expected_pos_override

\* C20: with strict_pos set and an expected part of speech, no returned row
\* has a grammatical fit below 0.95 and none is a word without a known part of
\* speech; when the expected part of speech is VERB, as for a blank after
\* "to", every returned word has a verb reading.
C20_StrictKeepsOnlyFits ==
    (RankCandidatesDone /\ req.strict_pos /\ ExpectedOfRequest # NoPos)
        => \A i \in 1..Len(resp) :
              /\ resp[i].word \in req.candidates
              /\ _grammatical_fit(env.wn, resp[i].word, ExpectedOfRequest) >= 95
              /\ get_pos_tags(env.wn, resp[i].word) # {}
              /\ ExpectedOfRequest = {"VERB"}
                    => "VERB" \in get_pos_tags(env.wn, resp[i].word)

\* A blank after "to" with a pool of six words, answered with the verbs only.
C20_Witness ==
    /\ RankCandidatesDone
    /\ req.strict_pos
    /\ req.expected_pos_override = NoPos
    /\ ExpectedOfRequest = {"VERB"}
    /\ req.candidates = StrictPool
    /\ resp # <<>>
    /\ Len(resp) < Cardinality(StrictPool)
    /\ \A i \in 1..Len(resp) : resp[i].word \in {"walk", "fast"}


\* ----------------------------------------------- properties: grammatical fit

FitDone == pc = "done" /\ req.op = "fit"

TagsOfRequest == get_pos_tags(env.wn, req.word)

LooksAdverbial == EndsLy(req.word) \/ req.word \in IRREGULAR_ADVERBS

LooksVerbInflected == EndsVerbLike(req.word)

\* The table of the fit, read in order, its adverb and verb rows taken for
\* candidates that have the expected part of speech among their tags, in 1/100
FitByTable ==
    IF req.expected_pos = NoPos THEN 100
    ELSE IF TagsOfRequest = {} THEN 40
    ELSE IF TagsOfRequest \cap req.expected_pos # {}
    THEN (IF req.expected_pos = {"ADV"} THEN (IF LooksAdverbial THEN 100 ELSE 45)
          ELSE IF req.expected_pos = {"VERB"} THEN (IF LooksVerbInflected THEN 100 ELSE 55)
          ELSE 100)
    ELSE IF \/ "ADJ" \in req.expected_pos /\ "ADV" \in TagsOfRequest
            \/ "ADV" \in req.expected_pos /\ "ADJ" \in TagsOfRequest
    THEN 45
    ELSE 0

\* C22: the fit is the one the table gives, for every expected set and every
\* candidate: 1.0 without an expected part of speech, 0.4 without known tags,
\* for an adverb slot 1.0 if the word ends in "ly" or is an irregular adverb
\* and else 0.45, for a verb slot 1.0 if the word looks verb-inflected and
\* else 0.55, 0.45 across adjective and adverb, else 0.0.
C22_FitAgreesWithTable == FitDone => resp.fit = FitByTable

\* The same away from the verb slot.
C22_FitAgreesOffVerbSlot ==
    (FitDone /\ req.expected_pos # {"VERB"}) => resp.fit = FitByTable

\* The value 0.55 is never given.
C22_NeverPartialVerbFit == FitDone => resp.fit # 55


\* ------------------------------------------------ properties: candidate pool

PoolDone == pc = "done" /\ req.op = "build_pipeline"

\* The words that have an entry in the mapping from words to sources.
MappedWords == { p[1] : p \in resp.source_map }

\* A lowercase token of letters and hyphens, three characters or more, not a
\* stopword, not the blank token, without whitespace.
WellFormedKey(word) ==
    /\ word = Lower(word)
    /\ word \notin ShortOrMalformed
    /\ word \notin STOPWORDS
    /\ word # Lower(BLANK_TOKEN)
    /\ ~HasSpace(word)

\* C23: after build_pipeline the candidate set and the mapping from words to
\* sources have at most 320 entries each, every key is a well-formed word, and
\* every key has at least one source and an emotion score.
C23_PoolCappedAndScored ==
    PoolDone =>
        /\ Cardinality(resp.candidates) <= PoolCap
        /\ Cardinality(MappedWords) <= PoolCap
        /\ \A word \in resp.candidates \cup MappedWords :
              /\ WellFormedKey(word)
              /\ SourcesOf(resp.source_map, word) # {}
              /\ word \in DOMAIN resp.emotion_scores

\* The same for the candidate set alone.
C23_CandidatesCappedAndScored ==
    PoolDone =>
        /\ Cardinality(resp.candidates) <= PoolCap
        /\ resp.candidates \subseteq MappedWords
        /\ \A word \in resp.candidates :
              /\ WellFormedKey(word)
              /\ SourcesOf(resp.source_map, word) # {}
              /\ word \in DOMAIN resp.emotion_scores

\* Every key of the mapping is a well-formed word.
C23_KeysWellFormed == PoolDone => \A word \in MappedWords : WellFormedKey(word)

\* The candidate set is cut down to the cap while the mapping keeps more.
C23_CutReached ==
    /\ PoolDone
    /\ Cardinality(resp.candidates) = PoolCap
    /\ Cardinality(MappedWords) > PoolCap


\* A call for a blank whose slot is strictly adverbial has returned.
AdverbSlotDone ==
    /\ PoolDone
    /\ resp.decision.intent = "blank"
    /\ resp.decision.strict_pos
    /\ resp.decision.expected_pos = {"ADV"}

\* The context words the slot-pattern fallback considers.
ConsideredWords ==
    Range(Prefix(WordsOfContext(ContextsOf(req.file), req.context_key), 24))

\* The words of the pool tagged by the slot-pattern fallback.
SlotWords == { p[1] : p \in { q \in resp.source_map : q[2] = "slot" } }

\* The one form of a context word: the word itself if it is an irregular
\* adverb, else its stem with "ily" if it ends in "y", else the word with "ly".
OneDerivedForm(word) ==
    IF word \in IRREGULAR_ADV THEN word
    ELSE IF EndsYLong(word) THEN IlyForm(word)
    ELSE LyForm(word)

\* C24: for a blank whose slot is strictly adverbial, each context word the
\* slot-pattern fallback considers contributes exactly one form: itself if it
\* is an irregular adverb, else stem + "ily" if it ends in "y", else word + "ly".
C24_OneFormPerContextWord ==
    AdverbSlotDone =>
        SlotWords = { p[1] : p \in UNION { _add_candidate(OneDerivedForm(word), "slot")
                                           : word \in ConsideredWords } }

\* The same for the context words that do not end in "y".
C24_OneFormUnlessEndsY ==
    (AdverbSlotDone /\ \A word \in ConsideredWords : ~EndsYLong(word)) =>
        SlotWords = { p[1] : p \in UNION { _add_candidate(OneDerivedForm(word), "slot")
                                           : word \in ConsideredWords } }

\* An adverbial slot filled from the large vocabulary.
C24_LargeReached == AdverbSlotDone /\ req.file = "large" /\ SlotWords # {}


\* The words of the active context of the request.
ContextWordsOfRequest == WordsOfContext(ContextsOf(req.file), req.context_key)

\* What the context, lexical, semantic-network, slot-pattern and neutral
\* generators gather for the request.
GatheredForRequest ==
    GatherCandidates(Capabilities(env, _related_cache), req.mode, ContextsOf(req.file),
                     resp.decision, ContextWordsOfRequest)

\* The generators left the pool empty although the active context has words.
EmptyBeforeFallback ==
    /\ PoolDone
    /\ { p \in resp.source_map : p[2] # "fallback" } = {}
    /\ GatheredForRequest = {}
    /\ ContextWordsOfRequest # <<>>

\* C25: when the pool is empty after the generators and the active context
\* has words, the fallback step adds the context words tagged fallback, so the
\* returned pool is not empty.
C25_FallbackFillsPool ==
    EmptyBeforeFallback =>
        /\ resp.candidates # {}
        /\ \E p \in resp.source_map : p[2] = "fallback"

\* No word of a returned pool is tagged fallback.
C25_NothingTaggedFallback ==
    PoolDone => \A p \in resp.source_map : p[2] # "fallback"


\* ------------------------------------------------------ properties: variants

VariantsDone == pc = "done" /\ req.op = "rewrite_variants"

\* What rewrite_sentence returns for the arguments of the request.
SentenceOfRequest ==
    rewrite_sentence(env.spacy, env.wn, req.sentence, req.context, req.mode,
                     req.blank_present, req.allow_rewrite, req.suggestions)

NoDuplicates(seq) == \A i, j \in 1..Len(seq) : seq[i] = seq[j] => i = j

\* Everything the claim says of the variants but their number.
VariantsShape ==
    /\ (resp.rewrites = <<>>) <=> IsEmptyText(SentenceOfRequest)
    /\ resp.rewrites # <<>> => resp.rewrites[1] = SentenceOfRequest
    /\ NoDuplicates(resp.rewrites)
    /\ Len(resp.rewrites) > 1 => req.mode = "rewrite"

\* C26: rewrite_variants returns at most max_variants strings for every
\* max_variants from 1 up, the first is what rewrite_sentence returns for the
\* same arguments, no string occurs twice, the list is empty exactly when
\* rewrite_sentence returns the empty string, and variants beyond the first are
\* produced in rewrite mode only.
C26_AtMostMaxVariants ==
    VariantsDone => (Len(resp.rewrites) <= req.max_variants /\ VariantsShape)

\* The same when two variants or more are asked for.
C26_AtMostMaxFromTwo ==
    (VariantsDone /\ req.max_variants >= 2)
        => (Len(resp.rewrites) <= req.max_variants /\ VariantsShape)

\* The shape holds for every number of variants asked for.
C26_ShapeOfVariants == VariantsDone => VariantsShape

\* Two variants are returned when two are asked for.
C26_TwoReached == VariantsDone /\ req.max_variants = 2 /\ Len(resp.rewrites) = 2


\* --------------------------------------------------- properties: explanation

ExplainDone == pc = "done" /\ req.op = "explain"

\* The display label of the context of the request.
LabelOfRequest == IF req.context = "nostalgia" THEN "nostalgic" ELSE req.context

\* The template the priority selection, blank, edit, rewrite, sentence picks.
TemplateByPriority ==
    IF req.selection_present THEN "selection"
    ELSE IF req.blank_present THEN "blank"
    ELSE IF req.mode = "edit" THEN "edit"
    ELSE IF req.mode = "rewrite" THEN "rewrite"
    ELSE IF req.intent = "sentence" THEN "sentence"
    ELSE "intent"

\* C27 as stated: without suggestions the explanation is the fixed message;
\* with one suggestion or more the template is the one the priority picks and
\* it always contains the display label of the context.
C27_LabelInEveryTemplate ==
    ExplainDone =>
        IF req.words = <<>> THEN resp.explanation = UnableToGenerate
        ELSE /\ resp.explanation.template = TemplateByPriority
             /\ resp.explanation.tone = LabelOfRequest

\* C27, amended: without suggestions the explanation is the fixed message; with
\* one suggestion or more the template is the one the priority selection,
\* blank, edit, rewrite, sentence picks, and every template but the one of edit
\* mode contains the display label of the context; the one of edit mode
\* contains no label.
C27_LabelUnlessEditTemplate ==
    ExplainDone =>
        IF req.words = <<>> THEN resp.explanation = UnableToGenerate
        ELSE /\ resp.explanation.template = TemplateByPriority
             /\ resp.explanation.tone =
                   IF TemplateByPriority = "edit" THEN None ELSE LabelOfRequest

C27_Witness ==
    /\ ExplainDone
    /\ req.words # <<>>
    /\ req.mode = "edit"
    /\ ~req.selection_present
    /\ ~req.blank_present
    /\ req.context = "nostalgia"
    /\ resp.explanation = Explanation("edit", None)


\* ------------------------------------------------- properties: preprocessing

PreprocessDone == pc = "done" /\ req.op = "preprocess_text"

\* The positions of the canonical blank token in a sequence of tokens.
BlankPositions(toks) == { i \in 1..Len(toks) : toks[i] = BLANK_TOKEN }

\* The tokens that are neither the blank token nor a lone full stop.
OtherWords(toks) == SelectSeq(toks, LAMBDA t : t # BLANK_TOKEN /\ t # ".")

\* The words of the text of the request that are no blank marker.
PlainWordsOfRequest == SelectSeq(req.text.w, LAMBDA a : a \notin MarkerSpellings)

\* The position of the first blank marker in the text of the request, 0 if none.
FirstMarkerOfRequest ==
    IF HasMarker(req.text)
    THEN CHOOSE i \in 1..Len(req.text.w) :
            /\ req.text.w[i] \in MarkerSpellings
            /\ \A j \in 1..(i - 1) : req.text.w[j] \notin MarkerSpellings
    ELSE 0

\* One text holds at most one blank token, at the place of the first marker,
\* and the other words in their order (lowered when the text is the cleaned one).
OneBlankInPlace(result_text, lowered) ==
    /\ BlankPositions(result_text.w) \subseteq {FirstMarkerOfRequest}
    /\ HasMarker(req.text) => BlankPositions(result_text.w) = {FirstMarkerOfRequest}
    /\ OtherWords(result_text.w) =
          [i \in 1..Len(PlainWordsOfRequest) |->
              IF lowered THEN Lower(PlainWordsOfRequest[i]) ELSE PlainWordsOfRequest[i]]

\* C28: every blank-marker spelling becomes the canonical token and only the
\* first is kept: cleaned_text and normalized_text hold at most one blank
\* token, where the first marker stood, blank_index is its token index, and
\* the other words keep their order.
C28_OneBlankKeptInPlace ==
    PreprocessDone =>
        /\ OneBlankInPlace(resp.normalized_text, FALSE)
        /\ OneBlankInPlace(resp.cleaned_text, TRUE)
        /\ resp.blank_index = FirstMarkerOfRequest

\* The same for normalized_text and blank_index alone.
C28_NormalizedKeepsOneBlank ==
    PreprocessDone =>
        /\ OneBlankInPlace(resp.normalized_text, FALSE)
        /\ resp.blank_index = FirstMarkerOfRequest

\* The same for the texts that do not hold the placeholder word.
C28_OneBlankWithoutPlaceholderWord ==
    (PreprocessDone /\ BLANK_PLACEHOLDER \notin Range(req.text.w)) =>
        /\ OneBlankInPlace(resp.normalized_text, FALSE)
        /\ OneBlankInPlace(resp.cleaned_text, TRUE)
        /\ resp.blank_index = FirstMarkerOfRequest

\* C29: blank_present is true exactly when cleaned_text holds the blank token,
\* and a text without a blank marker never yields a cleaned_text that holds
\* it, the texts with the placeholder word included.
C29_BlankPresentIffCleanedHasBlank ==
    PreprocessDone =>
        /\ resp.blank_present <=> BlankPositions(resp.cleaned_text.w) # {}
        /\ ~HasMarker(req.text) => BlankPositions(resp.cleaned_text.w) = {}

\* blank_present is true exactly when the text holds a blank marker, and
\* exactly when normalized_text holds the blank token.
C29_BlankPresentIffMarker ==
    PreprocessDone =>
        /\ resp.blank_present <=> HasMarker(req.text)
        /\ resp.blank_present <=> BlankPositions(resp.normalized_text.w) # {}


\* ------------------------------------------------ properties: related words

\* The step is a call of get_related_words for the term.
CallsRelated(term) == pc = "idle" /\ pc' = "done" /\ req'.op = "related" /\ req'.term = term

\* The empty result of a lookup of the term is in the cache.
EmptyCached(term) == <<term, <<>>>> \in _related_cache

\* C30: the result of get_related_words is memoized, the empty result of a
\* failed lookup included: a call that fails leaves the empty list in the
\* cache, the entry stays, and every later call for the term returns the empty
\* list from the cache without a new request, even after the service has
\* recovered.
C30_FailedLookupIsMemoized ==
    [][\A term \in RelatedTermSet :
          /\ (CallsRelated(term) /\ env.net = "down" /\ ~IsCached(_related_cache, term))
                => EmptyCached(term)'
          /\ EmptyCached(term)
                => /\ EmptyCached(term)'
                   /\ CallsRelated(term) => (resp' = Returned(<<>>) /\ req'.hit)]_vars

\* A call answered with the cached empty list of an earlier failure while the
\* service is up and has related words for the term.
C30_Witness ==
    /\ pc = "done"
    /\ req.op = "related"
    /\ req.term = "walk"
    /\ req.hit
    /\ env.net = "up"
    /\ get_related_words(env.net, req.term, 10) # <<>>
    /\ resp = Returned(<<>>)

====
